---- MODULE Spec2Model ----
(***************************************************************************)
(* A model of the PDF interactive-form engine of latex-document-skill:     *)
(*   scripts/pdf_validate_boxes.py   the geometry validator                *)
(*   scripts/pdf_extract_fields.py   the field schema extractor            *)
(*   scripts/pdf_fill_form.py        the value validator and native filler *)
(*   scripts/pdf_fill_annotations.py the overlay filler                    *)
(* Each script is a synchronous, single-threaded program; each has its own *)
(* specification below (SpecGeom, SpecExtract, SpecFill, SpecOverlay) over *)
(* its own variables, the variables of the other scripts staying idle.     *)
(***************************************************************************)
EXTENDS Integers, Sequences, FiniteSets, TLC

VARIABLES
    \* rects_intersect called on one pair, in both argument orders
    r1, r2, rres, rpc,
    \* get_bounding_box_messages: its argument, its locals, its position
    form_fields, messages, has_error, gi, gj, gpc, findings,
    \* fill_pdf_fields: the JSON list, its locals, the writer, the output
    \* file, what was printed, the exit code, its position; vcall is the
    \* last call of validation_error_for_field_value with its result
    fields, fields_by_page, field_info, fill_error, vk, pk, writer, output,
    printed, exit_code, fpc, vcall,
    \* get_field_info: the document read, its locals, its position in the
    \* loop over the pages' annotations, what went to stderr, its result
    pdf, field_info_by_id, radio_names, radio_fields_by_id, page_index,
    ann_index, warnings, sorted_fields, xpc,
    \* transform_coordinates called on one box: its arguments, its result
    tbox, tdims, tres, tpc,
    \* fill_pdf_form: the JSON document, its locals, the annotations added
    \* to the writer, the output file, what was printed, the exit code, the
    \* index of the record at hand, its position
    fields_data, pdf_dimensions, overlay_annotations, owriter, ooutput,
    oprinted, oexit_code, ok, opc,
    \* get_full_annotation_field_id on an annotation of an object graph: the
    \* graph, the argument, the local annotation, the local components, the
    \* value returned, its position
    store, wstart, wnode, wcomponents, wresult, wpc

rectVars == <<r1, r2, rres, rpc>>
geomVars == <<form_fields, messages, has_error, gi, gj, gpc, findings>>
fillVars == <<fields, fields_by_page, field_info, fill_error, vk, pk, writer,
              output, printed, exit_code, fpc, vcall>>
extractVars == <<pdf, field_info_by_id, radio_names, radio_fields_by_id,
                 page_index, ann_index, warnings, sorted_fields, xpc>>
transVars == <<tbox, tdims, tres, tpc>>
overlayVars == <<fields_data, pdf_dimensions, overlay_annotations, owriter,
                 ooutput, oprinted, oexit_code, ok, opc>>
walkVars == <<store, wstart, wnode, wcomponents, wresult, wpc>>
vars == <<rectVars, geomVars, fillVars, extractVars, transVars, overlayVars,
          walkVars>>

(***************************************************************************)
(* Rectangles are [left, top, right, bottom], here <<l, t, r, b>>.         *)
(***************************************************************************)
Left(r) == r[1]
Top(r) == r[2]
Right(r) == r[3]
Bottom(r) == r[4]

\* rects_intersect with the boundary made inclusive (<= for <, a plausible slip)
rects_intersect_closed(a, b) ==
    LET disjoint_horizontal == a[1] > b[3] \/ a[3] < b[1]
        disjoint_vertical == a[2] > b[4] \/ a[4] < b[2]
    IN  ~(disjoint_horizontal \/ disjoint_vertical)

\* rects_intersect with the vertical test dropped
rects_intersect_horizontal(a, b) ==
    LET disjoint_horizontal == a[1] >= b[3] \/ a[3] <= b[1]
    IN  ~disjoint_horizontal

rects_intersect(a, b) ==
    LET disjoint_horizontal == a[1] >= b[3] \/ a[3] <= b[1]
        disjoint_vertical == a[2] >= b[4] \/ a[4] <= b[2]
    IN  ~(disjoint_horizontal \/ disjoint_vertical)

(***************************************************************************)
(* SpecRect: rects_intersect as a pure function, on every pair of          *)
(* quadruples over the grid 0..MaxCoord (well-formed, degenerate and       *)
(* inverted ones alike: the function takes whatever the JSON holds).       *)
(***************************************************************************)
MaxCoord == 3
Coords == 0..MaxCoord
Quads == {<<l, t, r, b>> : l \in Coords, t \in Coords, r \in Coords, b \in Coords}

IdleRect ==
    /\ r1 = <<0, 0, 0, 0>> /\ r2 = <<0, 0, 0, 0>>
    /\ rres = <<FALSE, FALSE>> /\ rpc = "idle"

InitRect ==
    /\ r1 \in Quads /\ r2 \in Quads
    /\ rres = <<FALSE, FALSE>>
    /\ rpc = "call"

RectApply ==
    /\ rpc = "call"
    /\ rres' = <<rects_intersect(r1, r2), rects_intersect(r2, r1)>>
    /\ rpc' = "ret"
    /\ UNCHANGED <<r1, r2>>

(***************************************************************************)
(* The document, as pypdf's PdfReader presents it to pdf_extract_fields.py.*)
(*                                                                         *)
(* A Python dict is a function over its keys; d.get(k, default) is Get.    *)
(* reader.get_fields() is a sequence of <<field_id, field>> in the dict's  *)
(* order. reader.pages is a sequence of pages, a page the sequence of its  *)
(* '/Annots'. An annotation is a dict; its '/Parent' is again a dict.      *)
(* None is written NoName for a name and NoRect for a rectangle; both are  *)
(* falsy in Python, as "" and [] are.                                      *)
(***************************************************************************)
Get(d, k, default) == IF k \in DOMAIN d THEN d[k] ELSE default
NoName == ""
NoRect == <<>>
NoParent == <<>>

RECURSIVE Components(_)
\* lines 58-63: the short names along the parent chain, leaf first
Components(annotation) ==
    IF annotation = NoParent THEN <<>>
    ELSE LET field_name == Get(annotation, "/T", NoName)
             rest == Components(Get(annotation, "/Parent", NoParent))
         IN  IF field_name # NoName THEN <<field_name>> \o rest ELSE rest

\* JoinReversed that joins in the order of collection, leaf first
JoinForward(components) ==
    LET F[k \in 1..Len(components)] ==
            IF k = 1 THEN components[1] ELSE F[k - 1] \o "." \o components[k]
    IN  F[Len(components)]

RECURSIVE JoinReversed(_)
\* line 64: ".".join(reversed(components))
JoinReversed(components) ==
    IF Len(components) = 1 THEN components[1]
    ELSE JoinReversed(Tail(components)) \o "." \o components[1]

\* lines 52-64
get_full_annotation_field_id(annotation) ==
    LET components == Components(annotation)
    IN  IF Len(components) > 0 THEN JoinReversed(components) ELSE NoName

\* ButtonDict that takes the first state for the checked value
ButtonDictPositional(field) ==
    LET states == Get(field, "/_States_", <<>>)
    IN  IF Len(states) = 2
        THEN [type |-> "checkbox",
              checked_value |-> states[1],
              unchecked_value |-> states[2]]
        ELSE [type |-> "checkbox"]

\* lines 73-87: the keys a '/Btn' leaf adds
ButtonDict(field) ==
    LET states == Get(field, "/_States_", <<>>)
    IN  IF Len(states) = 2
        THEN IF \E k \in 1..2 : states[k] = "/Off"
             THEN [type |-> "checkbox",
                   checked_value |-> IF states[1] # "/Off" THEN states[1] ELSE states[2],
                   unchecked_value |-> "/Off"]
             ELSE [type |-> "checkbox",
                   checked_value |-> states[1],
                   unchecked_value |-> states[2]]
        ELSE [type |-> "checkbox"]

\* lines 88-94: the keys a '/Ch' leaf adds
ChoiceDict(field) ==
    LET states == Get(field, "/_States_", <<>>)
    IN  [type |-> "choice",
         choice_options |->
            [k \in 1..Len(states) |-> [value |-> states[k][1], text |-> states[k][2]]]]

\* lines 67-97
make_field_dict(field, field_id) ==
    LET ft == Get(field, "/FT", "None")
    IN  [field_id |-> field_id] @@
        ( IF ft = "/Tx" THEN [type |-> "text"]
          ELSE IF ft = "/Btn" THEN ButtonDict(field)
          ELSE IF ft = "/Ch" THEN ChoiceDict(field)
          ELSE [type |-> "unknown (" \o ft \o ")"] )

\* HasKids that sees no children
HasKidsNever(field) == FALSE

\* line 123: field.get("/Kids") is truthy
HasKids(field) == Len(Get(field, "/Kids", <<>>)) > 0

RECURSIVE LeafDicts(_)
\* lines 118-127: field_info_by_id, its values in insertion order
LeafDicts(defs) ==
    IF Len(defs) = 0 THEN <<>>
    ELSE LET field_id == defs[1][1]
             field == defs[1][2]
         IN  IF HasKids(field) THEN LeafDicts(Tail(defs))
             ELSE <<make_field_dict(field, field_id)>> \o LeafDicts(Tail(defs))

\* lines 119-126: possible_radio_names
PossibleRadioNames(defs) ==
    {defs[k][1] : k \in {n \in 1..Len(defs) :
        HasKids(defs[n][2]) /\ Get(defs[n][2], "/FT", "None") = "/Btn"}}

\* IndexOfId that finds no entry
IndexOfIdNone(dicts, field_id) == 0

\* lines 137 and 147: the place of field_id in a dict, 0 when it is not a key
IndexOfId(dicts, field_id) ==
    IF \E k \in 1..Len(dicts) : dicts[k].field_id = field_id
    THEN CHOOSE k \in 1..Len(dicts) : dicts[k].field_id = field_id
    ELSE 0

\* line 142: the non-'/Off' keys of ann['/AP']['/N'], in order
OnValues(ap_n) ==
    LET F[k \in 0..Len(ap_n)] ==
            IF k = 0 THEN <<>>
            ELSE IF ap_n[k] # "/Off" THEN Append(F[k - 1], ap_n[k]) ELSE F[k - 1]
    IN  F[Len(ap_n)]

\* lines 136-157: one annotation of page page_index + 1, on the two dicts
\* st = [leaf |-> field_info_by_id, radio |-> radio_fields_by_id]
ScanAnnotation(st, possible_radio_names, page_number, ann) ==
    LET field_id == get_full_annotation_field_id(ann)
        leaf_at == IndexOfId(st.leaf, field_id)
        rect == Get(ann, "/Rect", NoRect)
    IN  IF leaf_at # 0
        THEN [st EXCEPT !.leaf[leaf_at] =
                [page |-> page_number, rect |-> rect] @@ st.leaf[leaf_at]]
        ELSE IF field_id \in possible_radio_names
        THEN IF "/AP" \notin DOMAIN ann \/ "/N" \notin DOMAIN ann["/AP"]
             THEN st
             ELSE LET on_values == OnValues(ann["/AP"]["/N"])
                      radio_at == IndexOfId(st.radio, field_id)
                      option == [value |-> on_values[1], rect |-> rect]
                  IN  IF Len(on_values) # 1 THEN st
                      ELSE IF radio_at = 0
                      THEN [st EXCEPT !.radio = Append(@,
                              [field_id |-> field_id, type |-> "radio_group",
                               page |-> page_number, radio_options |-> <<option>>])]
                      ELSE [st EXCEPT !.radio[radio_at].radio_options = Append(@, option)]
        ELSE st

RECURSIVE ScanPage(_, _, _, _)
\* lines 135-157: the annotations of one page, in order
ScanPage(st, possible_radio_names, page_number, annotations) ==
    IF Len(annotations) = 0 THEN st
    ELSE ScanPage(ScanAnnotation(st, possible_radio_names, page_number, annotations[1]),
                  possible_radio_names, page_number, Tail(annotations))

RECURSIVE ScanPages(_, _, _, _)
\* lines 133-157: the pages from page_number on, in order
ScanPages(st, possible_radio_names, page_number, pages) ==
    IF page_number > Len(pages) THEN st
    ELSE ScanPages(ScanPage(st, possible_radio_names, page_number, pages[page_number]),
                   possible_radio_names, page_number + 1, pages)

\* FieldsWithLocation that drops nothing
FieldsWithLocationAll(dicts) == dicts

\* lines 159-166: fields_with_location
FieldsWithLocation(dicts) == SelectSeq(dicts, LAMBDA f : "page" \in DOMAIN f)

\* lines 169-175: sort_key(f) as <<page, -rect[1], rect[0]>>
sort_key(f) ==
    LET given == IF "radio_options" \in DOMAIN f THEN f.radio_options[1].rect
                 ELSE Get(f, "rect", NoRect)
        rect == IF given = NoRect THEN <<0, 0, 0, 0>> ELSE given
    IN  <<f.page, -rect[2], rect[1]>>

\* the order of Python lists of numbers
KeyLess(a, b) ==
    \/ a[1] < b[1]
    \/ a[1] = b[1] /\ a[2] < b[2]
    \/ a[1] = b[1] /\ a[2] = b[2] /\ a[3] < b[3]

RECURSIVE InsertSorted(_, _)
\* f after every element whose key is not greater: the sort is stable
InsertSorted(sorted, f) ==
    IF Len(sorted) = 0 THEN <<f>>
    ELSE IF KeyLess(sort_key(f), sort_key(sorted[1])) THEN <<f>> \o sorted
    ELSE <<sorted[1]>> \o InsertSorted(Tail(sorted), f)

\* SortFields that leaves the list as it is
SortFieldsUnsorted(dicts) == dicts

\* line 178: list.sort(key=sort_key)
SortFields(dicts) ==
    LET F[k \in 0..Len(dicts)] ==
            IF k = 0 THEN <<>> ELSE InsertSorted(F[k - 1], dicts[k])
    IN  F[Len(dicts)]

\* lines 100-180
get_field_info(reader) ==
    IF Len(reader.fields) = 0 THEN <<>>
    ELSE LET st == ScanPages([leaf |-> LeafDicts(reader.fields), radio |-> <<>>],
                             PossibleRadioNames(reader.fields), 1, reader.pages)
         IN  SortFields(FieldsWithLocation(st.leaf) \o st.radio)

(***************************************************************************)
(* get_full_annotation_field_id, step by step, on an object graph that may *)
(* be malformed. The graph has the objects 1..MaxNodes; an object has a    *)
(* short name ('/T', NoName when it has none) and a parent ('/Parent', 0   *)
(* when it has none); the parent links are any at all, cycles included.    *)
(* The list components grows without bound on a cycle of named objects;    *)
(* the model follows it up to MaxSteps names.                              *)
(***************************************************************************)
MaxNodes == 3
MaxSteps == 2 * MaxNodes

NodeNames == <<"a", "b", "c", "d", "e">>

Graphs ==
    [1..MaxNodes -> [name : {NoName} \cup {NodeNames[k] : k \in 1..MaxNodes},
                     parent : 0..MaxNodes]]

\* the graphs in which object k is named NodeNames[k] or has no name
NamedGraphs == {g \in Graphs : \A k \in 1..MaxNodes : g[k].name \in {NoName, NodeNames[k]}}

IdleWalk ==
    /\ store = <<>> /\ wstart = 0 /\ wnode = 0 /\ wcomponents = <<>>
    /\ wresult = NoName /\ wpc = "idle"

\* line 58
InitWalkCall ==
    /\ store \in NamedGraphs
    /\ wstart \in 1..MaxNodes
    /\ wnode = wstart
    /\ wcomponents = <<>>
    /\ wresult = NoName
    /\ wpc = "walk"

\* lines 59-63: one iteration of the loop
WalkStep ==
    /\ wpc = "walk"
    /\ wnode # 0
    /\ Len(wcomponents) < MaxSteps
    /\ LET field_name == store[wnode].name
       IN  wcomponents' = IF field_name # NoName THEN Append(wcomponents, field_name)
                          ELSE wcomponents
    /\ wnode' = store[wnode].parent
    /\ UNCHANGED <<store, wstart, wresult, wpc>>

\* line 64
WalkReturn ==
    /\ wpc = "walk"
    /\ wnode = 0
    /\ wresult' = IF Len(wcomponents) > 0 THEN JoinReversed(wcomponents) ELSE NoName
    /\ wpc' = "done"
    /\ UNCHANGED <<store, wstart, wnode, wcomponents>>

(***************************************************************************)
(* get_field_info, step by step. A line on stderr is a tuple: the fixed    *)
(* text, then the value the f-string interpolates.                         *)
(***************************************************************************)
CheckboxWarningText == "Warning: Unexpected state values for checkbox"
LocationWarningText == "Warning: Unable to determine location for field"

\* lines 76-85: the leaves whose two states hold no '/Off', in order
StateWarnings(defs) ==
    LET F[k \in 0..Len(defs)] ==
            IF k = 0 THEN <<>>
            ELSE LET field == defs[k][2]
                     states == Get(field, "/_States_", <<>>)
                 IN  IF /\ ~HasKids(field)
                        /\ Get(field, "/FT", "None") = "/Btn"
                        /\ Len(states) = 2
                        /\ \A n \in 1..2 : states[n] # "/Off"
                     THEN Append(F[k - 1], <<CheckboxWarningText, defs[k][1]>>)
                     ELSE F[k - 1]
    IN  F[Len(defs)]

\* lines 164-166: a warning for each leaf entry without a page, in order
LocationWarnings(dicts) ==
    LET F[k \in 0..Len(dicts)] ==
            IF k = 0 THEN <<>>
            ELSE IF "page" \in DOMAIN dicts[k] THEN F[k - 1]
            ELSE Append(F[k - 1], <<LocationWarningText, dicts[k].field_id>>)
    IN  F[Len(dicts)]

IdleExtract ==
    /\ pdf = <<>> /\ field_info_by_id = <<>> /\ radio_names = {}
    /\ radio_fields_by_id = <<>> /\ page_index = 0 /\ ann_index = 0
    /\ warnings = <<>> /\ sorted_fields = <<>> /\ xpc = "idle"

\* lines 114-131: the field dictionary is read; no field, no schema
ExtractGetFields ==
    /\ xpc = "start"
    /\ IF Len(pdf.fields) = 0
       THEN /\ xpc' = "done"
            /\ UNCHANGED <<field_info_by_id, radio_names, warnings, page_index, ann_index>>
       ELSE /\ field_info_by_id' = LeafDicts(pdf.fields)
            /\ radio_names' = PossibleRadioNames(pdf.fields)
            /\ warnings' = StateWarnings(pdf.fields)
            /\ page_index' = 1 /\ ann_index' = 1
            /\ xpc' = IF Len(pdf.pages) = 0 THEN "filter" ELSE "scan"
    /\ UNCHANGED <<pdf, radio_fields_by_id, sorted_fields>>

\* lines 135-157: one annotation of the page
ExtractAnnotation ==
    /\ xpc = "scan"
    /\ ann_index <= Len(pdf.pages[page_index])
    /\ LET st == ScanAnnotation([leaf |-> field_info_by_id, radio |-> radio_fields_by_id],
                                radio_names, page_index, pdf.pages[page_index][ann_index])
       IN  /\ field_info_by_id' = st.leaf
           /\ radio_fields_by_id' = st.radio
    /\ ann_index' = ann_index + 1
    /\ UNCHANGED <<pdf, radio_names, page_index, warnings, sorted_fields, xpc>>

\* line 133: the next page, or the end of the loop
ExtractNextPage ==
    /\ xpc = "scan"
    /\ ann_index > Len(pdf.pages[page_index])
    /\ page_index' = page_index + 1
    /\ ann_index' = 1
    /\ xpc' = IF page_index + 1 > Len(pdf.pages) THEN "filter" ELSE "scan"
    /\ UNCHANGED <<pdf, field_info_by_id, radio_names, radio_fields_by_id,
                   warnings, sorted_fields>>

\* lines 159-177: the leaves without a page are dropped, each with a warning
ExtractFilter ==
    /\ xpc = "filter"
    /\ sorted_fields' = FieldsWithLocation(field_info_by_id) \o radio_fields_by_id
    /\ warnings' = warnings \o LocationWarnings(field_info_by_id)
    /\ xpc' = "sort"
    /\ UNCHANGED <<pdf, field_info_by_id, radio_names, radio_fields_by_id,
                   page_index, ann_index>>

\* lines 178-180
ExtractSort ==
    /\ xpc = "sort"
    /\ sorted_fields' = SortFields(sorted_fields)
    /\ xpc' = "done"
    /\ UNCHANGED <<pdf, field_info_by_id, radio_names, radio_fields_by_id,
                   page_index, ann_index, warnings>>

(***************************************************************************)
(* The form that pdf_fill_form.py is given: two pages.                     *)
(*   page 1: name (text), agree (checkbox /Yes, /Off), btn (a push button: *)
(*           '/Btn' without toggle states)                                 *)
(*   page 2: choice (a radio group of two buttons /Yes and /No), country   *)
(*           (choice list US, FR), sig (a signature field)                 *)
(*   ghost (text) is defined and has no annotation on any page.            *)
(***************************************************************************)
Widget(name, ft, rect) == [x \in {"/T", "/FT", "/Rect"} |->
    CASE x = "/T" -> name [] x = "/FT" -> ft [] x = "/Rect" -> rect]

RadioButton(group, state, rect) == [x \in {"/Parent", "/AP", "/Rect"} |->
    CASE x = "/Parent" -> [y \in {"/T", "/FT"} |-> IF y = "/T" THEN group ELSE "/Btn"]
      [] x = "/AP" -> [y \in {"/N"} |-> <<state, "/Off">>]
      [] x = "/Rect" -> rect]

FieldTx == [x \in {"/FT"} |-> "/Tx"]
FieldSig == [x \in {"/FT"} |-> "/Sig"]
FieldBtn(states) == [x \in {"/FT", "/_States_"} |-> IF x = "/FT" THEN "/Btn" ELSE states]
FieldPush == [x \in {"/FT"} |-> "/Btn"]
FieldCh(states) == [x \in {"/FT", "/_States_"} |-> IF x = "/FT" THEN "/Ch" ELSE states]
FieldRadio(states) == [x \in {"/FT", "/Kids", "/_States_"} |->
    CASE x = "/FT" -> "/Btn" [] x = "/Kids" -> states [] x = "/_States_" -> states]

FormDoc ==
    [fields |->
        << <<"name", FieldTx>>,
           <<"agree", FieldBtn(<<"/Yes", "/Off">>)>>,
           <<"btn", FieldPush>>,
           <<"choice", FieldRadio(<<"/Yes", "/No">>)>>,
           <<"country", FieldCh(<< <<"US", "United States">>, <<"FR", "France">> >>)>>,
           <<"sig", FieldSig>>,
           <<"ghost", FieldTx>> >>,
     pages |->
        << << Widget("agree", "/Btn", <<50, 600, 62, 612>>),
              Widget("name", "/Tx", <<50, 700, 250, 720>>),
              Widget("btn", "/Btn", <<50, 500, 120, 520>>) >>,
           << RadioButton("choice", "/Yes", <<50, 700, 62, 712>>),
              RadioButton("choice", "/No", <<80, 700, 92, 712>>),
              Widget("country", "/Ch", <<50, 600, 250, 620>>),
              Widget("sig", "/Sig", <<50, 100, 250, 150>>) >> >>]

(***************************************************************************)
(* pdf_fill_form.py.                                                       *)
(*                                                                         *)
(* An assignment (one element of the JSON list) is a dict with the keys    *)
(* field_id, page and, optionally, value. A printed line is a tuple: the   *)
(* fixed text, then the values the f-string interpolates. The return value *)
(* of validation_error_for_field_value is such a tuple, NoError for None,  *)
(* or KeyErrorRaised(key) when the lookup of a missing key raises.         *)
(* The document's field values ('/V') are a function field_id -> value.    *)
(***************************************************************************)
NoError == <<>>
KeyErrorRaised(key) == <<"KeyError", key>>
IsRaised(res) == Len(res) > 0 /\ res[1] = "KeyError"

UnknownFieldText == "ERROR: is not a valid field ID"
PageMismatchText == "ERROR: Incorrect page number"
CheckboxValueText == "ERROR: Invalid value for checkbox field"
RadioValueText == "ERROR: Invalid value for radio group field"
ChoiceValueText == "ERROR: Invalid value for choice field"
ExceptionText == "Error:"
FilledText == "Successfully filled PDF form and saved"

OptionValues(options) == [k \in 1..Len(options) |-> options[k].value]
InSeq(x, seq) == \E k \in 1..Len(seq) : seq[k] = x

\* validation_error_for_field_value whose checkbox test accepts any value
validation_error_checkbox_unchecked(field_info_1, field_value) ==
    LET field_type == field_info_1.type
        field_id == field_info_1.field_id
    IN  IF field_type = "checkbox"
        THEN IF "checked_value" \notin DOMAIN field_info_1
             THEN KeyErrorRaised("checked_value")
             ELSE NoError
        ELSE IF field_type = "radio_group"
        THEN LET option_values == OptionValues(field_info_1.radio_options)
             IN  IF ~InSeq(field_value, option_values)
                 THEN <<RadioValueText, field_value, field_id, option_values>>
                 ELSE NoError
        ELSE IF field_type = "choice"
        THEN LET choice_values == OptionValues(field_info_1.choice_options)
             IN  IF ~InSeq(field_value, choice_values)
                 THEN <<ChoiceValueText, field_value, field_id, choice_values>>
                 ELSE NoError
        ELSE NoError

\* lines 54-77
validation_error_for_field_value(field_info_1, field_value) ==
    LET field_type == field_info_1.type
        field_id == field_info_1.field_id
    IN  IF field_type = "checkbox"
        THEN IF "checked_value" \notin DOMAIN field_info_1
             THEN KeyErrorRaised("checked_value")
             ELSE IF "unchecked_value" \notin DOMAIN field_info_1
             THEN KeyErrorRaised("unchecked_value")
             ELSE LET checked_val == field_info_1.checked_value
                      unchecked_val == field_info_1.unchecked_value
                  IN  IF field_value # checked_val /\ field_value # unchecked_val
                      THEN <<CheckboxValueText, field_value, field_id,
                             checked_val, unchecked_val>>
                      ELSE NoError
        ELSE IF field_type = "radio_group"
        THEN LET option_values == OptionValues(field_info_1.radio_options)
             IN  IF ~InSeq(field_value, option_values)
                 THEN <<RadioValueText, field_value, field_id, option_values>>
                 ELSE NoError
        ELSE IF field_type = "choice"
        THEN LET choice_values == OptionValues(field_info_1.choice_options)
             IN  IF ~InSeq(field_value, choice_values)
                 THEN <<ChoiceValueText, field_value, field_id, choice_values>>
                 ELSE NoError
        ELSE NoError

\* PutValue keeping the first value given for a field of a page
PutValueFirst(by_page, page, field_id, value) ==
    IF \E k \in 1..Len(by_page) : by_page[k][1] = page
    THEN LET at == CHOOSE k \in 1..Len(by_page) : by_page[k][1] = page
         IN  [by_page EXCEPT ![at][2] = @ @@ (field_id :> value)]
    ELSE Append(by_page, <<page, (field_id :> value)>>)

\* line 127-129 on the list of <<page, field_values>> kept in insertion
\* order: fields_by_page[page][field_id] = value
PutValue(by_page, page, field_id, value) ==
    IF \E k \in 1..Len(by_page) : by_page[k][1] = page
    THEN LET at == CHOOSE k \in 1..Len(by_page) : by_page[k][1] = page
         IN  [by_page EXCEPT ![at][2] = (field_id :> value) @@ @]
    ELSE Append(by_page, <<page, (field_id :> value)>>)

\* lines 122-129: fields_by_page
GroupByPage(batch) ==
    LET F[k \in 0..Len(batch)] ==
            IF k = 0 THEN <<>>
            ELSE IF "value" \in DOMAIN batch[k]
            THEN PutValue(F[k - 1], batch[k].page, batch[k].field_id, batch[k].value)
            ELSE F[k - 1]
    IN  F[Len(batch)]

\* line 136, line 139: fields_by_ids.get(field_id); 0 for None, else the
\* position in field_info of the entry the dict keeps (the last one)
ExistingField(info, field_id) ==
    IF \E k \in 1..Len(info) : info[k].field_id = field_id
    THEN CHOOSE k \in 1..Len(info) :
            /\ info[k].field_id = field_id
            /\ \A m \in (k + 1)..Len(info) : info[m].field_id # field_id
    ELSE 0

\* ValidateOne without the page comparison
ValidateOneAnyPage(field, info) ==
    LET at == ExistingField(info, field.field_id)
        err == validation_error_for_field_value(info[at], field.value)
    IN  IF at = 0
        THEN [has_error |-> TRUE, raised |-> FALSE, called |-> FALSE,
              out |-> <<UnknownFieldText, field.field_id>>]
        ELSE IF "value" \in DOMAIN field
        THEN [has_error |-> err # NoError, raised |-> IsRaised(err), called |-> TRUE,
              out |-> err]
        ELSE [has_error |-> FALSE, raised |-> FALSE, called |-> FALSE, out |-> NoError]

\* ValidateOne with the value checked before the page
ValidateOneValueFirst(field, info) ==
    LET at == ExistingField(info, field.field_id)
        err == validation_error_for_field_value(info[at], field.value)
    IN  IF at = 0
        THEN [has_error |-> TRUE, raised |-> FALSE, called |-> FALSE,
              out |-> <<UnknownFieldText, field.field_id>>]
        ELSE IF "value" \in DOMAIN field /\ err # NoError
        THEN [has_error |-> TRUE, raised |-> IsRaised(err), called |-> TRUE,
              out |-> err]
        ELSE IF field.page # info[at].page
        THEN [has_error |-> TRUE, raised |-> FALSE, called |-> FALSE,
              out |-> <<PageMismatchText, field.field_id, field.page, info[at].page>>]
        ELSE [has_error |-> FALSE, raised |-> FALSE, called |-> "value" \in DOMAIN field,
              out |-> NoError]

\* lines 139-152: the body of the validation loop for one assignment: what
\* it prints (out), whether it sets has_error, whether it called
\* validation_error_for_field_value and whether that call raised
ValidateOne(field, info) ==
    LET at == ExistingField(info, field.field_id)
        err == validation_error_for_field_value(info[at], field.value)
    IN  IF at = 0
        THEN [has_error |-> TRUE, raised |-> FALSE, called |-> FALSE,
              out |-> <<UnknownFieldText, field.field_id>>]
        ELSE IF field.page # info[at].page
        THEN [has_error |-> TRUE, raised |-> FALSE, called |-> FALSE,
              out |-> <<PageMismatchText, field.field_id, field.page, info[at].page>>]
        ELSE IF "value" \in DOMAIN field
        THEN [has_error |-> err # NoError, raised |-> IsRaised(err), called |-> TRUE,
              out |-> err]
        ELSE [has_error |-> FALSE, raised |-> FALSE, called |-> FALSE, out |-> NoError]

\* the ids of the annotations of a page: the fields whose value a page
\* update can set
IdsOnPage(reader, page) ==
    {get_full_annotation_field_id(reader.pages[page][k]) : k \in 1..Len(reader.pages[page])}

\* the write of UpdatePage lost
UpdatePageLost(values, reader, page, field_values) == values

\* lines 159-161: writer.update_page_form_field_values(writer.pages[page - 1],
\* field_values): every field with an annotation on the page and a key in
\* field_values takes the value
UpdatePage(values, reader, page, field_values) ==
    [id \in DOMAIN values |->
        IF id \in DOMAIN field_values /\ id \in IdsOnPage(reader, page)
        THEN field_values[id] ELSE values[id]]

\* the reader's document and its field values before the fill
Reader == FormDoc
FieldIds == {Reader.fields[k][1] : k \in 1..Len(Reader.fields)}
ReaderValues == [id \in FieldIds |-> ""]

NoWriter == [exists |-> FALSE, values |-> ReaderValues, need_appearances |-> FALSE]
NoOutput == [written |-> FALSE, values |-> ReaderValues, need_appearances |-> FALSE]
NoCall == <<>>

IdleFill ==
    /\ fields = <<>> /\ fields_by_page = <<>> /\ field_info = <<>>
    /\ fill_error = FALSE /\ vk = 0 /\ pk = 0
    /\ writer = NoWriter /\ output = NoOutput
    /\ printed = <<>> /\ exit_code = 0 /\ fpc = "idle" /\ vcall = NoCall

\* lines 118-136: the grouping loop, the reader, get_field_info
FillGroup ==
    /\ fpc = "start"
    /\ fields_by_page' = GroupByPage(fields)
    /\ field_info' = get_field_info(Reader)
    /\ fill_error' = FALSE
    /\ vk' = 1
    /\ fpc' = "validate"
    /\ UNCHANGED <<fields, pk, writer, output, printed, exit_code, vcall>>

\* lines 138-152: one assignment; a KeyError leaves fill_pdf_fields and
\* main (lines 216-218) prints it and exits with 1
FillValidate ==
    /\ fpc = "validate"
    /\ vk <= Len(fields)
    /\ LET field == fields[vk]
           res == ValidateOne(field, field_info)
       IN  /\ vcall' = IF res.called
                       THEN <<[info |-> field_info[ExistingField(field_info, field.field_id)],
                               value |-> field.value, result |-> res.out]>>
                       ELSE vcall
           /\ IF res.raised
              THEN /\ printed' = Append(printed, <<ExceptionText, res.out[2]>>)
                   /\ exit_code' = 1
                   /\ fpc' = "done"
                   /\ UNCHANGED <<fill_error, vk>>
              ELSE /\ printed' = IF res.has_error THEN Append(printed, res.out) ELSE printed
                   /\ fill_error' = (fill_error \/ res.has_error)
                   /\ vk' = vk + 1
                   /\ UNCHANGED <<exit_code, fpc>>
    /\ UNCHANGED <<fields, fields_by_page, field_info, pk, writer, output>>

\* lines 154-157: exit on error, else the writer, a clone of the reader
FillCheck ==
    /\ fpc = "validate"
    /\ vk > Len(fields)
    /\ IF fill_error
       THEN /\ exit_code' = 1
            /\ fpc' = "done"
            /\ UNCHANGED <<writer, pk>>
       ELSE /\ writer' = [exists |-> TRUE, values |-> ReaderValues,
                          need_appearances |-> FALSE]
            /\ pk' = 1
            /\ fpc' = "apply"
            /\ UNCHANGED exit_code
    /\ UNCHANGED <<fields, fields_by_page, field_info, fill_error, vk, output,
                   printed, vcall>>

\* lines 158-161: one page of fields_by_page
FillUpdatePage ==
    /\ fpc = "apply"
    /\ pk <= Len(fields_by_page)
    /\ writer' = [writer EXCEPT !.values =
                    UpdatePage(@, Reader, fields_by_page[pk][1], fields_by_page[pk][2])]
    /\ pk' = pk + 1
    /\ UNCHANGED <<fields, fields_by_page, field_info, fill_error, vk, output,
                   printed, exit_code, fpc, vcall>>

\* FillSetNeedAppearances taken before the page batches are through
FillSetNeedAppearancesEarly ==
    /\ fpc = "apply"
    /\ writer' = [writer EXCEPT !.need_appearances = TRUE]
    /\ fpc' = "write"
    /\ UNCHANGED <<fields, fields_by_page, field_info, fill_error, vk, pk, output,
                   printed, exit_code, vcall>>

\* line 164
FillSetNeedAppearances ==
    /\ fpc = "apply"
    /\ pk > Len(fields_by_page)
    /\ writer' = [writer EXCEPT !.need_appearances = TRUE]
    /\ fpc' = "write"
    /\ UNCHANGED <<fields, fields_by_page, field_info, fill_error, vk, pk, output,
                   printed, exit_code, vcall>>

\* lines 166-169
FillWrite ==
    /\ fpc = "write"
    /\ output' = [written |-> TRUE, values |-> writer.values,
                  need_appearances |-> writer.need_appearances]
    /\ printed' = Append(printed, <<FilledText>>)
    /\ exit_code' = 0
    /\ fpc' = "done"
    /\ UNCHANGED <<fields, fields_by_page, field_info, fill_error, vk, pk, writer, vcall>>

(***************************************************************************)
(* get_bounding_box_messages(fields_data).                                 *)
(*                                                                         *)
(* A record of form_fields is                                              *)
(*   [page_number, description, label_bounding_box, entry_bounding_box,    *)
(*    entry_text]                                                          *)
(* where entry_text is [present, has_font_size, font_size]: present is     *)
(* '"entry_text" in field', has_font_size is '"font_size" in entry_text'.  *)
(* A description is an opaque string, written here as a number.            *)
(* A message is a tuple: the fixed text of the f-string, then the values   *)
(* it interpolates, in order.                                              *)
(***************************************************************************)
MsgCap == 20
DefaultFontSize == 14

ReadText == "Read fields"
SameText == "FAILURE: intersection between label and entry bounding boxes"
DiffText == "FAILURE: intersection between bounding boxes"
ShortText == "FAILURE: entry bounding box height is too short"
AbortText == "Aborting further checks; fix bounding boxes and try again"
SuccessText == "SUCCESS: All bounding boxes are valid"

MsgRead(n) == <<ReadText, n>>
MsgSame(ri, rj, ff) == <<SameText, ff[ri.field].description, ri.rect, rj.rect>>
MsgDiff(ri, rj, ff) ==
    <<DiffText, ri.rect_type, ff[ri.field].description, ri.rect,
      rj.rect_type, ff[rj.field].description, rj.rect>>
MsgShort(entry_height, ri, font_size, ff) ==
    <<ShortText, entry_height, ff[ri.field].description, font_size>>
MsgAbort == <<AbortText>>
MsgSuccess == <<SuccessText>>

IsFailure(m) == m[1] \in {SameText, DiffText, ShortText}
IsIntersection(m) == m[1] \in {SameText, DiffText}
IsShort(m) == m[1] = ShortText
IsAbort(m) == m[1] = AbortText
IsSuccess(m) == m[1] = SuccessText

\* rects_and_fields: the label box, then the entry box, of each record in
\* order; "field" is the record's position (the identity of the dict).
RectsAndFields(ff) ==
    [k \in 1..(2 * Len(ff)) |->
        LET f == (k + 1) \div 2
        IN  IF k % 2 = 1
            THEN [rect |-> ff[f].label_bounding_box, rect_type |-> "label", field |-> f]
            ELSE [rect |-> ff[f].entry_bounding_box, rect_type |-> "entry", field |-> f]]

rects_and_fields == RectsAndFields(form_fields)

\* PairHit without the page comparison
PairHitAnyPage(ri, rj, ff) == rects_intersect(ri.rect, rj.rect)

\* line 85: the condition under which a pair is reported
PairHit(ri, rj, ff) ==
    /\ ff[ri.field].page_number = ff[rj.field].page_number
    /\ rects_intersect(ri.rect, rj.rect)

\* PairMessage telling the records apart by their content
PairMessageByContent(ri, rj, ff) ==
    IF ff[ri.field] = ff[rj.field] THEN MsgSame(ri, rj, ff) ELSE MsgDiff(ri, rj, ff)

\* line 87-95: the message of a reported pair
PairMessage(ri, rj, ff) ==
    IF ri.field = rj.field THEN MsgSame(ri, rj, ff) ELSE MsgDiff(ri, rj, ff)

\* line 102
FontSize(field) ==
    IF field.entry_text.has_font_size THEN field.entry_text.font_size
    ELSE DefaultFontSize

\* line 103
EntryHeight(rect) == rect[4] - rect[2]

\* TooShort with <= for <
TooShortOrEqual(ri, ff) ==
    /\ ri.rect_type = "entry"
    /\ ff[ri.field].entry_text.present
    /\ EntryHeight(ri.rect) <= FontSize(ff[ri.field])

\* lines 100-104: the condition under which an entry box is flagged
TooShort(ri, ff) ==
    /\ ri.rect_type = "entry"
    /\ ff[ri.field].entry_text.present
    /\ EntryHeight(ri.rect) < FontSize(ff[ri.field])

\* CapReached one message late
CapReachedLate(msgs) == Len(msgs) > MsgCap

\* lines 96 and 110
CapReached(msgs) == Len(msgs) >= MsgCap

IdleGeom ==
    /\ form_fields = <<>> /\ messages = <<>> /\ has_error = FALSE
    /\ gi = 0 /\ gj = 0 /\ gpc = "idle" /\ findings = <<>>

\* lines 73-81: the header message and the locals before the loops
GeomStart ==
    /\ gpc = "start"
    /\ messages' = <<MsgRead(Len(form_fields))>>
    /\ has_error' = FALSE
    /\ gi' = 1 /\ gj' = 2
    /\ gpc' = IF Len(rects_and_fields) = 0 THEN "finish" ELSE "pairs"
    /\ UNCHANGED <<form_fields, findings>>

\* lines 83-98: one iteration of the inner loop
GeomPair ==
    /\ gpc = "pairs"
    /\ gj <= Len(rects_and_fields)
    /\ LET ri == rects_and_fields[gi]
           rj == rects_and_fields[gj]
           appended == Append(messages, PairMessage(ri, rj, form_fields))
       IN  IF PairHit(ri, rj, form_fields)
           THEN /\ has_error' = TRUE
                /\ findings' = Append(findings, <<gi, gj>>)
                /\ IF CapReached(appended)
                   THEN /\ messages' = Append(appended, MsgAbort)
                        /\ gpc' = "done"
                        /\ UNCHANGED <<gi, gj>>
                   ELSE /\ messages' = appended
                        /\ gj' = gj + 1
                        /\ UNCHANGED <<gi, gpc>>
           ELSE /\ gj' = gj + 1
                /\ UNCHANGED <<messages, has_error, findings, gi, gpc>>
    /\ UNCHANGED form_fields

\* lines 100-112: after the inner loop of ri, its height check, then the
\* next ri
GeomHeight ==
    /\ gpc = "pairs"
    /\ gj > Len(rects_and_fields)
    /\ LET ri == rects_and_fields[gi]
           font_size == FontSize(form_fields[ri.field])
           entry_height == EntryHeight(ri.rect)
           appended == Append(messages, MsgShort(entry_height, ri, font_size, form_fields))
           advance == /\ gi' = gi + 1
                      /\ gj' = gi + 2
                      /\ gpc' = IF gi + 1 > Len(rects_and_fields) THEN "finish" ELSE "pairs"
       IN  IF TooShort(ri, form_fields)
           THEN /\ has_error' = TRUE
                /\ findings' = Append(findings, <<gi, gi>>)
                /\ IF CapReached(appended)
                   THEN /\ messages' = Append(appended, MsgAbort)
                        /\ gpc' = "done"
                        /\ UNCHANGED <<gi, gj>>
                   ELSE /\ messages' = appended
                        /\ advance
           ELSE /\ advance
                /\ UNCHANGED <<messages, has_error, findings>>
    /\ UNCHANGED form_fields

\* FinalMessages with SUCCESS appended whatever was found
FinalMessagesAlways(msgs, err) == Append(msgs, MsgSuccess)

\* lines 114-116: the list returned when the loops end
FinalMessages(msgs, err) == IF err THEN msgs ELSE Append(msgs, MsgSuccess)

\* lines 114-116
GeomFinish ==
    /\ gpc = "finish"
    /\ messages' = FinalMessages(messages, has_error)
    /\ gpc' = "done"
    /\ UNCHANGED <<form_fields, has_error, gi, gj, findings>>

(***************************************************************************)
(* pdf_fill_annotations.py.                                                *)
(*                                                                         *)
(* Python's float arithmetic is modelled by exact rational arithmetic: a   *)
(* number is <<numerator, denominator>> in lowest terms, the denominator   *)
(* positive. The rounding of a binary float (one unit in the last place)   *)
(* is below what this model tells apart.                                   *)
(***************************************************************************)
Abs(n) == IF n < 0 THEN 0 - n ELSE n

RECURSIVE GCD(_, _)
GCD(a, b) == IF b = 0 THEN a ELSE GCD(b, a % b)

\* the number n / d, d # 0
Rat(n, d) ==
    LET g == GCD(Abs(n), Abs(d))
        sign == IF d < 0 THEN 0 - 1 ELSE 1
    IN  <<sign * (n \div g), sign * (d \div g)>>

RatTimes(k, q) == Rat(k * q[1], q[2])
RatMinus(k, q) == Rat(k * q[2] - q[1], q[2])

\* transform_coordinates that scales and does not flip the vertical axis
transform_coordinates_unflipped(bbox, image_width, image_height, pdf_width, pdf_height) ==
    LET x_scale == Rat(pdf_width, image_width)
        y_scale == Rat(pdf_height, image_height)
    IN  <<RatTimes(bbox[1], x_scale), RatTimes(bbox[4], y_scale),
          RatTimes(bbox[3], x_scale), RatTimes(bbox[2], y_scale)>>

\* lines 53-79: (left, bottom, right, top) in PDF coordinates
transform_coordinates(bbox, image_width, image_height, pdf_width, pdf_height) ==
    LET x_scale == Rat(pdf_width, image_width)
        y_scale == Rat(pdf_height, image_height)
        left == RatTimes(bbox[1], x_scale)
        right == RatTimes(bbox[3], x_scale)
        top == RatMinus(pdf_height, RatTimes(bbox[2], y_scale))
        bottom == RatMinus(pdf_height, RatTimes(bbox[4], y_scale))
    IN  <<left, bottom, right, top>>

\* the boxes and the sizes transform_coordinates is called on: the box and
\* the sizes of the documented example among them
TransformCoords == {0, 100, 125, 142, 280}
TransformBoxes == TransformCoords \X TransformCoords \X TransformCoords \X TransformCoords
TransformDims ==
    { [image_width |-> 800, image_height |-> 1100, pdf_width |-> 612, pdf_height |-> 792],
      [image_width |-> 1000, image_height |-> 1000, pdf_width |-> 612, pdf_height |-> 792],
      [image_width |-> 400, image_height |-> 550, pdf_width |-> 595, pdf_height |-> 842] }

IdleTransform == tbox = <<>> /\ tdims = <<>> /\ tres = <<>> /\ tpc = "idle"

InitTransform ==
    /\ tbox \in TransformBoxes
    /\ tdims \in TransformDims
    /\ tres = <<>>
    /\ tpc = "call"

\* the call and its return
TransformApply ==
    /\ tpc = "call"
    /\ tres' = transform_coordinates(tbox, tdims.image_width, tdims.image_height,
                                     tdims.pdf_width, tdims.pdf_height)
    /\ tpc' = "ret"
    /\ UNCHANGED <<tbox, tdims>>

(***************************************************************************)
(* fill_pdf_form. A record of form_fields has page_number, description,    *)
(* the two boxes and entry_text, which says whether the key entry_text is  *)
(* present, whether it has the keys font_size and text, and their values.  *)
(* The PDF is the sequence of the sizes of its pages' media boxes.         *)
(***************************************************************************)
StopIterationText == "StopIteration"
KeyErrorText == "KeyError"
ZeroDivisionText == "ZeroDivisionError"
OverlayErrorText == "Error: "
SavedText == "Successfully filled PDF form and saved to"
AddedText == "Added text annotations"
DefaultFont == "Arial"
DefaultColor == "000000"
OverlayDefaultFontSize == 14

\* line 129: entry_text.get("font_size", 14)
OverlayFontSize(field) ==
    IF field.entry_text.has_font_size THEN field.entry_text.font_size
    ELSE OverlayDefaultFontSize

PdfPageSizes == << <<612, 792>>, <<595, 842>> >>

NoFile == <<>>

\* PageInfoIndex that takes the first record whatever its page number
PageInfoIndexFirst(pages, page_num) == 1

\* line 109: the first record of pages with the page number, 0 when next()
\* finds none
PageInfoIndex(pages, page_num) ==
    IF \E k \in 1..Len(pages) : pages[k].page_number = page_num
    THEN CHOOSE k \in 1..Len(pages) :
            /\ pages[k].page_number = page_num
            /\ \A m \in 1..(k - 1) : pages[m].page_number # page_num
    ELSE 0

\* HasText that takes an empty text for text
HasTextOrEmpty(field) == field.entry_text.present /\ field.entry_text.has_text

\* lines 121-126: the record is not skipped
HasText(field) ==
    /\ field.entry_text.present
    /\ field.entry_text.has_text
    /\ field.entry_text.text # ""

\* lines 128-142: the FreeText annotation of a record
FreeText(field, rect) ==
    [text |-> field.entry_text.text,
     rect |-> rect,
     font |-> DefaultFont,
     font_size |-> <<OverlayFontSize(field), "pt">>,
     font_color |-> DefaultColor]

\* lines 106-144 on one record: what is raised, if anything, and the
\* annotation, if any
ProcessField(field, pages, dimensions) ==
    LET page_num == field.page_number
        at == PageInfoIndex(pages, page_num)
        page_info == pages[at]
        box == transform_coordinates(field.entry_bounding_box,
                                     page_info.image_width, page_info.image_height,
                                     dimensions[page_num][1], dimensions[page_num][2])
    IN  IF at = 0 THEN [raised |-> StopIterationText, skip |-> TRUE]
        ELSE IF page_num \notin DOMAIN dimensions
        THEN [raised |-> KeyErrorText, skip |-> TRUE]
        ELSE IF page_info.image_width = 0 \/ page_info.image_height = 0
        THEN [raised |-> ZeroDivisionText, skip |-> TRUE]
        ELSE IF ~HasText(field) THEN [raised |-> "", skip |-> TRUE, rect |-> box]
        ELSE [raised |-> "", skip |-> FALSE, rect |-> box,
              annotation |-> FreeText(field, box)]

IdleOverlay ==
    /\ fields_data = <<>> /\ pdf_dimensions = <<>> /\ overlay_annotations = <<>>
    /\ owriter = <<>> /\ ooutput = NoFile /\ oprinted = <<>> /\ oexit_code = 0
    /\ ok = 0 /\ opc = "idle"

\* lines 90-104: the JSON and the PDF are read, the writer takes the pages
OverlayOpen ==
    /\ opc = "start"
    /\ pdf_dimensions' = PdfPageSizes
    /\ overlay_annotations' = <<>>
    /\ owriter' = <<>>
    /\ ok' = 1
    /\ opc' = IF Len(fields_data.form_fields) = 0 THEN "write" ELSE "fields"
    /\ UNCHANGED <<fields_data, ooutput, oprinted, oexit_code>>

\* lines 105-144: one record; an exception ends the run in main (lines
\* 205-209) with the error printed and exit code 1
OverlayField ==
    /\ opc = "fields"
    /\ LET field == fields_data.form_fields[ok]
           res == ProcessField(field, fields_data.pages, pdf_dimensions)
       IN  IF res.raised # ""
           THEN /\ oprinted' = Append(oprinted, <<OverlayErrorText, res.raised>>)
                /\ oexit_code' = 1
                /\ opc' = "done"
                /\ UNCHANGED <<overlay_annotations, owriter, ok>>
           ELSE /\ IF res.skip
                   THEN UNCHANGED <<overlay_annotations, owriter>>
                   ELSE /\ overlay_annotations' = Append(overlay_annotations, res.annotation)
                        /\ owriter' = Append(owriter,
                              [page_number |-> field.page_number - 1,
                               annotation |-> res.annotation])
                /\ ok' = ok + 1
                /\ opc' = IF ok + 1 > Len(fields_data.form_fields) THEN "write" ELSE "fields"
                /\ UNCHANGED <<oprinted, oexit_code>>
    /\ UNCHANGED <<fields_data, pdf_dimensions, ooutput>>

\* lines 146-150
OverlayWrite ==
    /\ opc = "write"
    /\ ooutput' = [annotations |-> owriter]
    /\ oprinted' = oprinted \o <<<<SavedText>>, <<AddedText, Len(overlay_annotations)>>>>
    /\ opc' = "done"
    /\ UNCHANGED <<fields_data, pdf_dimensions, overlay_annotations, owriter,
                   oexit_code, ok>>

(***************************************************************************)
(* The inputs of get_bounding_box_messages.                                *)
(*  - every list of at most MaxFields records over RichRecords: two pages, *)
(*    two descriptions, a label box, entry boxes of height 10, 14 and 25   *)
(*    that are apart from the label box, touch it along its right edge or  *)
(*    overlap it, with no entry_text, entry_text without font_size, or     *)
(*    entry_text with font_size 20;                                        *)
(*  - the lists of test_multiple_errors_limit: n records Field0..Field(n-1)*)
(*    on page 1 with the same two boxes, for n up to NumOverlapping.       *)
(***************************************************************************)
MaxFields == 2
NumOverlapping == 25

NoEntryText == [present |-> FALSE, has_font_size |-> FALSE, font_size |-> 0]
EntryTextNoFont == [present |-> TRUE, has_font_size |-> FALSE, font_size |-> 0]
EntryTextFont(n) == [present |-> TRUE, has_font_size |-> TRUE, font_size |-> n]

LabelBox == <<10, 10, 100, 30>>
EntryApart == <<110, 10, 200, 20>>
EntryTouching == <<100, 10, 200, 24>>
EntryOverlapping == <<50, 10, 150, 35>>
EntryTest == <<110, 10, 200, 30>>

RichRecords ==
    [page_number : {1, 2},
     description : {0, 1},
     label_bounding_box : {LabelBox},
     entry_bounding_box : {EntryApart, EntryTouching, EntryOverlapping},
     entry_text : {NoEntryText, EntryTextNoFont, EntryTextFont(20)}]

SeqsUpTo(S, n) == UNION {[1..k -> S] : k \in 0..n}

OverlappingFields(n) ==
    [k \in 1..n |->
        [page_number |-> 1, description |-> k - 1,
         label_bounding_box |-> LabelBox, entry_bounding_box |-> EntryTest,
         entry_text |-> NoEntryText]]

GeomInputs ==
    SeqsUpTo(RichRecords, MaxFields) \cup {OverlappingFields(n) : n \in 3..NumOverlapping}

InitGeomCall ==
    /\ form_fields \in GeomInputs
    /\ messages = <<>> /\ has_error = FALSE
    /\ gi = 0 /\ gj = 0 /\ gpc = "start" /\ findings = <<>>

(***************************************************************************)
(* SpecGeom: pdf_validate_boxes.py. A behaviour is either one call of      *)
(* rects_intersect (in both argument orders) or one call of                *)
(* get_bounding_box_messages.                                              *)
(***************************************************************************)
InitGeom ==
    \/ InitRect /\ IdleGeom /\ IdleFill /\ IdleExtract /\ IdleTransform /\ IdleOverlay /\ IdleWalk
    \/ IdleRect /\ InitGeomCall /\ IdleFill /\ IdleExtract /\ IdleTransform /\ IdleOverlay /\ IdleWalk

NextGeom ==
    \/ RectApply /\ UNCHANGED <<geomVars, fillVars, extractVars, transVars, overlayVars, walkVars>>
    \/ GeomStart /\ UNCHANGED <<rectVars, fillVars, extractVars, transVars, overlayVars, walkVars>>
    \/ GeomPair /\ UNCHANGED <<rectVars, fillVars, extractVars, transVars, overlayVars, walkVars>>
    \/ GeomHeight /\ UNCHANGED <<rectVars, fillVars, extractVars, transVars, overlayVars, walkVars>>
    \/ GeomFinish /\ UNCHANGED <<rectVars, fillVars, extractVars, transVars, overlayVars, walkVars>>

SpecGeom == InitGeom /\ [][NextGeom]_vars

(***************************************************************************)
(* The inputs of fill_pdf_fields: every list of at most MaxBatch           *)
(* assignments whose field_id is a field of the form or a name that is not,*)
(* whose page is 1 or 2 and whose value is absent, "/Yes" or "US".         *)
(***************************************************************************)
MaxBatch == 2

BatchIds == {"name", "agree", "btn", "choice", "country", "sig", "nope"}
BatchPages == {1, 2}
BatchValues == {"/Yes", "US"}

Assignments ==
    [field_id : BatchIds, page : BatchPages, value : BatchValues]
    \cup [field_id : BatchIds, page : BatchPages]

InitFillCall ==
    /\ fields \in UNION {[1..n -> Assignments] : n \in 0..MaxBatch}
    /\ fields_by_page = <<>> /\ field_info = <<>>
    /\ fill_error = FALSE /\ vk = 0 /\ pk = 0
    /\ writer = NoWriter /\ output = NoOutput
    /\ printed = <<>> /\ exit_code = 0 /\ fpc = "start" /\ vcall = NoCall

(***************************************************************************)
(* SpecFill: one run of pdf_fill_form.py on the form.                      *)
(***************************************************************************)
InitFill ==
    IdleRect /\ IdleGeom /\ InitFillCall /\ IdleExtract /\ IdleTransform /\ IdleOverlay /\ IdleWalk

NextFill ==
    \/ FillGroup /\ UNCHANGED <<rectVars, geomVars, extractVars, transVars, overlayVars, walkVars>>
    \/ FillValidate /\ UNCHANGED <<rectVars, geomVars, extractVars, transVars, overlayVars, walkVars>>
    \/ FillCheck /\ UNCHANGED <<rectVars, geomVars, extractVars, transVars, overlayVars, walkVars>>
    \/ FillUpdatePage /\ UNCHANGED <<rectVars, geomVars, extractVars, transVars, overlayVars, walkVars>>
    \/ FillSetNeedAppearances /\ UNCHANGED <<rectVars, geomVars, extractVars, transVars, overlayVars, walkVars>>
    \/ FillWrite /\ UNCHANGED <<rectVars, geomVars, extractVars, transVars, overlayVars, walkVars>>

SpecFill == InitFill /\ [][NextFill]_vars

(***************************************************************************)
(* The inputs of get_field_info: a document without fields, and the        *)
(* documents with the field dictionary ExtractFields and two pages that    *)
(* hold, between them, at most MaxAnnots annotations of AnnotPool:         *)
(*   widgets of the text field a, of the checkbox b and of p.c, which has  *)
(*   its name from its parent p; a widget of a without '/Rect';            *)
(*   buttons of the radio group g with the states /1 and /2, one with the  *)
(*   state '/Off' only, one with the two on-states /1 and /2, one without  *)
(*   '/AP'; and an annotation that belongs to no field.                    *)
(* The dictionary lists b before p.c before a, the reverse of their places *)
(* on a page.                                                              *)
(***************************************************************************)
MaxAnnots == 3

ChildWidget(parent, name, rect) == [x \in {"/T", "/Parent", "/Rect"} |->
    CASE x = "/T" -> name
      [] x = "/Parent" -> [y \in {"/T"} |-> parent]
      [] x = "/Rect" -> rect]

RadioStates(group, states, rect) == [x \in {"/Parent", "/AP", "/Rect"} |->
    CASE x = "/Parent" -> [y \in {"/T", "/FT"} |-> IF y = "/T" THEN group ELSE "/Btn"]
      [] x = "/AP" -> [y \in {"/N"} |-> states]
      [] x = "/Rect" -> rect]

RadioNoAP(group, rect) == [x \in {"/Parent", "/Rect"} |->
    CASE x = "/Parent" -> [y \in {"/T", "/FT"} |-> IF y = "/T" THEN group ELSE "/Btn"]
      [] x = "/Rect" -> rect]

WidgetNoRect(name, ft) == [x \in {"/T", "/FT"} |-> IF x = "/T" THEN name ELSE ft]

LinkAnnotation(rect) == [x \in {"/Subtype", "/Rect"} |->
    IF x = "/Subtype" THEN "/Link" ELSE rect]

FieldContainer == [x \in {"/Kids"} |-> <<"c">>]

ExtractFields ==
    << <<"b", FieldBtn(<<"/Yes", "/Off">>)>>,
       <<"p", FieldContainer>>,
       <<"p.c", FieldTx>>,
       <<"a", FieldTx>>,
       <<"g", FieldRadio(<<"/1", "/2">>)>> >>

AnnotPool ==
    { Widget("a", "/Tx", <<50, 700, 250, 720>>),
      WidgetNoRect("a", "/Tx"),
      Widget("b", "/Btn", <<50, 600, 62, 612>>),
      ChildWidget("p", "c", <<300, 700, 400, 720>>),
      RadioButton("g", "/1", <<50, 500, 62, 512>>),
      RadioButton("g", "/2", <<80, 500, 92, 512>>),
      RadioStates("g", <<"/Off">>, <<110, 500, 122, 512>>),
      RadioStates("g", <<"/1", "/2">>, <<140, 500, 152, 512>>),
      RadioNoAP("g", <<170, 500, 182, 512>>),
      LinkAnnotation(<<50, 50, 100, 60>>) }

\* the first n elements of a sequence, and the rest
Take(seq, n) == SubSeq(seq, 1, n)
Drop(seq, n) == SubSeq(seq, n + 1, Len(seq))

\* a second dictionary: button leaves with the states (/Yes, /Off),
\* (/Off, /On), (/A, /B), none (a push button) and three; a container that
\* is not a button; a button with children; a field without '/FT'
FieldNoType == [x \in {"/TU"} |-> "tooltip"]

ButtonFields ==
    << <<"c1", FieldBtn(<<"/Yes", "/Off">>)>>,
       <<"c2", FieldBtn(<<"/Off", "/On">>)>>,
       <<"c3", FieldBtn(<<"/A", "/B">>)>>,
       <<"push", FieldPush>>,
       <<"c5", FieldBtn(<<"/A", "/B", "/Off">>)>>,
       <<"q", FieldContainer>>,
       <<"k", FieldRadio(<<"/1", "/2">>)>>,
       <<"t", FieldNoType>> >>

ButtonPool ==
    { Widget("c1", "/Btn", <<50, 700, 62, 712>>),
      Widget("c2", "/Btn", <<50, 650, 62, 662>>),
      Widget("c3", "/Btn", <<50, 600, 62, 612>>),
      Widget("push", "/Btn", <<50, 550, 120, 570>>),
      Widget("c5", "/Btn", <<50, 500, 62, 512>>),
      Widget("q", "/Tx", <<50, 450, 250, 470>>),
      WidgetNoRect("t", "None") }

ExtractInputs ==
    {[fields |-> <<>>, pages |-> << <<LinkAnnotation(<<50, 50, 100, 60>>)>> >>]}
    \cup {[fields |-> ButtonFields, pages |-> <<anns, <<>>>>] :
            anns \in SeqsUpTo(ButtonPool, MaxAnnots)}
    \cup {[fields |-> ExtractFields, pages |-> <<Take(anns, cut), Drop(anns, cut)>>] :
            <<anns, cut>> \in {ac \in SeqsUpTo(AnnotPool, MaxAnnots) \X (0..MaxAnnots) :
                                  ac[2] <= Len(ac[1])}}

InitExtractCall ==
    /\ pdf \in ExtractInputs
    /\ field_info_by_id = <<>> /\ radio_names = {}
    /\ radio_fields_by_id = <<>> /\ page_index = 0 /\ ann_index = 0
    /\ warnings = <<>> /\ sorted_fields = <<>> /\ xpc = "start"

(***************************************************************************)
(* SpecExtract: one call of get_field_info.                                *)
(***************************************************************************)
InitExtract ==
    IdleRect /\ IdleGeom /\ IdleFill /\ InitExtractCall /\ IdleTransform /\ IdleOverlay /\ IdleWalk

NextExtract ==
    \/ ExtractGetFields /\ UNCHANGED <<rectVars, geomVars, fillVars, transVars, overlayVars, walkVars>>
    \/ ExtractAnnotation /\ UNCHANGED <<rectVars, geomVars, fillVars, transVars, overlayVars, walkVars>>
    \/ ExtractNextPage /\ UNCHANGED <<rectVars, geomVars, fillVars, transVars, overlayVars, walkVars>>
    \/ ExtractFilter /\ UNCHANGED <<rectVars, geomVars, fillVars, transVars, overlayVars, walkVars>>
    \/ ExtractSort /\ UNCHANGED <<rectVars, geomVars, fillVars, transVars, overlayVars, walkVars>>

SpecExtract == InitExtract /\ [][NextExtract]_vars

(***************************************************************************)
(* The inputs of fill_pdf_form: a PDF of two pages and a fields.json with  *)
(*  - pages: both pages' records; or two records for page 1 (the first is  *)
(*    the one next() finds), none for page 2 and one for a page 3 the PDF  *)
(*    has not; or a record for page 2 with image_width 0;                  *)
(*  - form_fields: at most MaxRecords records on page 1, 2 or 3, the entry *)
(*    box that of the documented example (height 17) or one that overlaps  *)
(*    the label box, with no entry_text, entry_text without text, with an  *)
(*    empty text, with a text, or with a text and font_size 20.            *)
(***************************************************************************)
MaxRecords == 2

PageRecord(n, w, h) == [page_number |-> n, image_width |-> w, image_height |-> h]

OverlayPages ==
    { <<PageRecord(1, 800, 1100), PageRecord(2, 400, 550)>>,
      <<PageRecord(1, 1000, 1000), PageRecord(1, 800, 1100), PageRecord(3, 800, 1100)>>,
      <<PageRecord(1, 800, 1100), PageRecord(2, 0, 550)>> }

EntryExample == <<100, 125, 280, 142>>

NoEntryTextKey ==
    [present |-> FALSE, has_font_size |-> FALSE, font_size |-> 0,
     has_text |-> FALSE, text |-> ""]
EntryTextNoText ==
    [present |-> TRUE, has_font_size |-> TRUE, font_size |-> 14,
     has_text |-> FALSE, text |-> ""]
EntryTextEmpty ==
    [present |-> TRUE, has_font_size |-> FALSE, font_size |-> 0,
     has_text |-> TRUE, text |-> ""]
EntryTextOf(text) ==
    [present |-> TRUE, has_font_size |-> FALSE, font_size |-> 0,
     has_text |-> TRUE, text |-> text]
EntryTextSized(text, n) ==
    [present |-> TRUE, has_font_size |-> TRUE, font_size |-> n,
     has_text |-> TRUE, text |-> text]

OverlayRecords ==
    [page_number : {1, 2, 3},
     description : {0},
     label_bounding_box : {LabelBox},
     entry_bounding_box : {EntryExample, EntryOverlapping},
     entry_text : {NoEntryTextKey, EntryTextNoText, EntryTextEmpty,
                   EntryTextOf("Johnson"), EntryTextSized("Ng", 20)}]

InitOverlayCall ==
    /\ fields_data \in [pages : OverlayPages,
                        form_fields : SeqsUpTo(OverlayRecords, MaxRecords)]
    /\ pdf_dimensions = <<>> /\ overlay_annotations = <<>>
    /\ owriter = <<>> /\ ooutput = NoFile /\ oprinted = <<>> /\ oexit_code = 0
    /\ ok = 0 /\ opc = "start"

(***************************************************************************)
(* SpecOverlay: pdf_fill_annotations.py. A behaviour is either one call of *)
(* transform_coordinates or one run of fill_pdf_form.                      *)
(***************************************************************************)
InitOverlay ==
    /\ IdleRect /\ IdleGeom /\ IdleFill /\ IdleExtract /\ IdleWalk
    /\ \/ InitTransform /\ IdleOverlay
       \/ IdleTransform /\ InitOverlayCall

NextOverlay ==
    \/ TransformApply /\ UNCHANGED <<rectVars, geomVars, fillVars, extractVars, overlayVars, walkVars>>
    \/ OverlayOpen /\ UNCHANGED <<rectVars, geomVars, fillVars, extractVars, transVars, walkVars>>
    \/ OverlayField /\ UNCHANGED <<rectVars, geomVars, fillVars, extractVars, transVars, walkVars>>
    \/ OverlayWrite /\ UNCHANGED <<rectVars, geomVars, fillVars, extractVars, transVars, walkVars>>

SpecOverlay == InitOverlay /\ [][NextOverlay]_vars

(***************************************************************************)
(* SpecWalk: one call of get_full_annotation_field_id. SpecWalkFair: the   *)
(* same, the interpreter going on to execute the loop as long as it can.   *)
(***************************************************************************)
InitWalk ==
    /\ IdleRect /\ IdleGeom /\ IdleFill /\ IdleExtract
    /\ IdleTransform /\ IdleOverlay
    /\ InitWalkCall

NextWalk ==
    \/ WalkStep /\ UNCHANGED <<rectVars, geomVars, fillVars, extractVars, transVars, overlayVars>>
    \/ WalkReturn /\ UNCHANGED <<rectVars, geomVars, fillVars, extractVars, transVars, overlayVars>>

SpecWalk == InitWalk /\ [][NextWalk]_vars

SpecWalkFair == SpecWalk /\ WF_vars(NextWalk)

(***************************************************************************)
(* Spec: a run of either script.                                           *)
(***************************************************************************)
Init == InitGeom \/ InitFill \/ InitExtract \/ InitOverlay \/ InitWalk
Next == NextGeom \/ NextFill \/ NextExtract \/ NextOverlay \/ NextWalk
Spec == Init /\ [][Next]_vars

(***************************************************************************)
(* The validation rules, stated apart from the code, on the schema of the  *)
(* form: an assignment names one schema entry, on that entry's page, with  *)
(* a value that is legal for the entry's type.                             *)
(***************************************************************************)
Schema == get_field_info(Reader)
SchemaIds == {Schema[k].field_id : k \in 1..Len(Schema)}
Entry(id) == Schema[CHOOSE k \in 1..Len(Schema) : Schema[k].field_id = id]
ValuesOf(options) == {options[k].value : k \in 1..Len(options)}

\* Checkbox: checked_value or unchecked_value; RadioGroup, Choice: one of
\* the option values; Text: any string. (A type outside these four has no
\* rule.)
TypeLegal(e, v) ==
    CASE e.type = "checkbox" ->
            /\ "checked_value" \in DOMAIN e /\ "unchecked_value" \in DOMAIN e
            /\ v \in {e.checked_value, e.unchecked_value}
      [] e.type = "radio_group" -> v \in ValuesOf(e.radio_options)
      [] e.type = "choice" -> v \in ValuesOf(e.choice_options)
      [] OTHER -> TRUE

UnknownId(a) == a.field_id \notin SchemaIds
WrongPage(a) == a.field_id \in SchemaIds /\ a.page # Entry(a.field_id).page
IllegalValue(a) ==
    /\ a.field_id \in SchemaIds /\ a.page = Entry(a.field_id).page
    /\ "value" \in DOMAIN a
    /\ ~TypeLegal(Entry(a.field_id), a.value)
BreaksRule(a) == UnknownId(a) \/ WrongPage(a) \/ IllegalValue(a)

\* the same, leaving aside a checkbox entry that states no legal value
HasLegalValues(e) ==
    e.type = "checkbox" => ("checked_value" \in DOMAIN e /\ "unchecked_value" \in DOMAIN e)
BreaksStatedRule(a) ==
    UnknownId(a) \/ WrongPage(a) \/ (IllegalValue(a) /\ HasLegalValues(Entry(a.field_id)))

IsValidationError(m) ==
    m[1] \in {UnknownFieldText, PageMismatchText, CheckboxValueText,
              RadioValueText, ChoiceValueText}
IsValueError(m) ==
    Len(m) > 0 /\ m[1] \in {CheckboxValueText, RadioValueText, ChoiceValueText}
ErrorFieldId(m) == IF m[1] \in {UnknownFieldText, PageMismatchText} THEN m[2] ELSE m[3]
Printed(m) == \E k \in 1..Len(printed) : printed[k] = m

\* C1: when an assignment of the batch breaks a rule (unknown field_id,
\* wrong page, illegal value) no writer is ever made, so no value is applied
\* for any assignment, the output is not written, and the run ends with
\* exit code 1.
C1_NoMutationOnInvalid ==
    (\E k \in 1..Len(fields) : BreaksRule(fields[k])) =>
        /\ writer = NoWriter
        /\ output = NoOutput
        /\ fpc \notin {"apply", "write"}
        /\ fpc = "done" => exit_code = 1

\* a finished run on a batch of a valid assignment with a value followed by
\* one that breaks a rule
C1_Witness ==
    /\ fpc = "done"
    /\ Len(fields) = 2
    /\ ~BreaksRule(fields[1]) /\ "value" \in DOMAIN fields[1]
    /\ BreaksRule(fields[2])
    /\ exit_code = 1
    /\ output = NoOutput

\* C2: at the end of the run, every assignment of the batch that breaks a
\* rule has an error naming its field_id among the printed lines, and the
\* validation errors printed are as many as the assignments that break a
\* rule.
C2_EveryViolationReported ==
    fpc = "done" =>
        /\ \A k \in 1..Len(fields) :
             BreaksStatedRule(fields[k]) =>
                \E m \in 1..Len(printed) :
                    /\ IsValidationError(printed[m])
                    /\ ErrorFieldId(printed[m]) = fields[k].field_id
        /\ Cardinality({m \in 1..Len(printed) : IsValidationError(printed[m])})
             = Cardinality({k \in 1..Len(fields) : BreaksStatedRule(fields[k])})

\* C3: a run passes validation only if every assignment names a schema
\* entry on that entry's page; at the end of the run every assignment with a
\* field_id outside the schema has its unknown-field error printed and every
\* assignment on another page than its entry's has its page-mismatch error
\* printed.
C3_UnknownFieldAndPageMismatch ==
    /\ fpc \in {"apply", "write"} \/ (fpc = "done" /\ exit_code = 0) =>
         \A k \in 1..Len(fields) : ~UnknownId(fields[k]) /\ ~WrongPage(fields[k])
    /\ fpc = "done" =>
         \A k \in 1..Len(fields) :
            /\ UnknownId(fields[k]) =>
                 Printed(<<UnknownFieldText, fields[k].field_id>>)
            /\ WrongPage(fields[k]) =>
                 Printed(<<PageMismatchText, fields[k].field_id, fields[k].page,
                           Entry(fields[k].field_id).page>>)

\* C4: every call of validation_error_for_field_value on a text, checkbox,
\* radio_group or choice entry returns no error exactly when the value is
\* legal for the entry, and otherwise an illegal-value error naming the
\* field.
C4_NoErrorIffTypeLegal ==
    vcall # NoCall =>
        LET c == vcall[1]
        IN  c.info.type \in {"text", "checkbox", "radio_group", "choice"} =>
              /\ (c.result = NoError) <=> TypeLegal(c.info, c.value)
              /\ ~TypeLegal(c.info, c.value) =>
                    /\ IsValueError(c.result)
                    /\ c.result[2] = c.value
                    /\ c.result[3] = c.info.field_id

\* every assignment is valid: a schema entry, its page, a legal value
AllValid == \A k \in 1..Len(fields) : ~BreaksRule(fields[k])
HasValue(k) == "value" \in DOMAIN fields[k]
LastFor(k) ==
    \A m \in (k + 1)..Len(fields) :
        ~(HasValue(m) /\ fields[m].field_id = fields[k].field_id)

\* C5 as stated: after a fill with a fully valid batch, the value read from
\* the written document for each assignment's field is the value that
\* assignment gave.
C5_EveryAssignmentReadBack ==
    (fpc = "done" /\ AllValid) =>
        /\ exit_code = 0 /\ output.written
        /\ \A k \in 1..Len(fields) :
             HasValue(k) => output.values[fields[k].field_id] = fields[k].value

\* C5, amended: after a fill with a fully valid batch the document is
\* written and, for each field the batch gives a value, the value read back
\* is that of the last assignment of the batch that gives the field a value;
\* every other field keeps its value. (The schema re-extracted from the
\* written document is the schema of the input: the fill changes no
\* annotation, rectangle or appearance dictionary.)
C5_LastAssignmentReadBack ==
    (fpc = "done" /\ AllValid) =>
        /\ exit_code = 0 /\ output.written
        /\ \A k \in 1..Len(fields) :
             (HasValue(k) /\ LastFor(k)) =>
                output.values[fields[k].field_id] = fields[k].value
        /\ \A id \in FieldIds :
             (\A k \in 1..Len(fields) : HasValue(k) => fields[k].field_id # id) =>
                output.values[id] = ReaderValues[id]

\* a finished fill of a checkbox on page 1 and a choice list on page 2,
\* both read back
C5_Witness ==
    /\ fpc = "done" /\ AllValid
    /\ Len(fields) = 2
    /\ fields[1] = [field_id |-> "agree", page |-> 1, value |-> "/Yes"]
    /\ fields[2] = [field_id |-> "country", page |-> 2, value |-> "US"]
    /\ output.written
    /\ output.values["agree"] = "/Yes" /\ output.values["country"] = "US"
    /\ output.values["name"] = ""

(***************************************************************************)
(* Geometry, stated apart from the code's test: the extent two boxes share *)
(* on each axis.                                                           *)
(***************************************************************************)
Max2(a, b) == IF a >= b THEN a ELSE b
Min2(a, b) == IF a <= b THEN a ELSE b
WellFormed(r) == Left(r) < Right(r) /\ Top(r) < Bottom(r)
XOverlap(a, b) == Max2(Left(a), Left(b)) < Min2(Right(a), Right(b))
YOverlap(a, b) == Max2(Top(a), Top(b)) < Min2(Bottom(a), Bottom(b))
PositiveOverlap(a, b) == XOverlap(a, b) /\ YOverlap(a, b)
TouchEdge(a, b) ==
    \/ Right(a) = Left(b) \/ Right(b) = Left(a)
    \/ Bottom(a) = Top(b) \/ Bottom(b) = Top(a)
Touching(a, b) == TouchEdge(a, b) /\ ~PositiveOverlap(a, b)

NumRects == Len(rects_and_fields)
PageOf(k) == form_fields[rects_and_fields[k].field].page_number
RectOf(k) == rects_and_fields[k].rect
Aborted == \E k \in 1..Len(messages) : IsAbort(messages[k])
Times(pair) == Cardinality({k \in 1..Len(findings) : findings[k] = pair})

\* Every finding of the log stands for one FAILURE message, in order: the
\* k-th finding is the message after the header and the k-1 earlier ones.
FindingsAreMessages ==
    /\ Len(findings) =
         Cardinality({k \in 1..Len(messages) : IsFailure(messages[k])})
    /\ \A k \in 1..Len(findings) :
         LET i == findings[k][1]
             j == findings[k][2]
         IN  messages[k + 1] =
               IF i = j
               THEN <<ShortText, Bottom(RectOf(i)) - Top(RectOf(i)),
                      form_fields[rects_and_fields[i].field].description,
                      FontSize(form_fields[rects_and_fields[i].field])>>
               ELSE PairMessage(rects_and_fields[i], rects_and_fields[j], form_fields)

\* C6: two rectangles that do not overlap and touch along an edge do not
\* intersect, whichever is given first, and get_bounding_box_messages never
\* reports an intersection for two such boxes.
C6_TouchingIsNoIntersection ==
    /\ (rpc = "ret" /\ Touching(r1, r2)) => rres = <<FALSE, FALSE>>
    /\ FindingsAreMessages
    /\ \A i \in 1..NumRects : \A j \in 1..NumRects :
         (i # j /\ Touching(RectOf(i), RectOf(j))) => Times(<<i, j>>) = 0

\* a finished run over a record whose entry box touches its label box, on
\* one page, that ends with SUCCESS
C6_Witness ==
    /\ gpc = "done"
    /\ \E f \in 1..Len(form_fields) :
         /\ Touching(form_fields[f].label_bounding_box, form_fields[f].entry_bounding_box)
         /\ WellFormed(form_fields[f].entry_bounding_box)
    /\ IsSuccess(messages[Len(messages)])

\* C7: two rectangles whose common region has positive area intersect (one
\* strictly inside the other included); two rectangles (left < right,
\* top < bottom) that overlap on one axis only do not.
C7_OverlapIsIntersection ==
    rpc = "ret" =>
        /\ PositiveOverlap(r1, r2) => rres = <<TRUE, TRUE>>
        /\ ( /\ WellFormed(r1) /\ WellFormed(r2)
             /\ XOverlap(r1, r2) # YOverlap(r1, r2) ) => rres = <<FALSE, FALSE>>

\* r2 strictly inside r1, found to intersect
C7_Witness ==
    /\ rpc = "ret"
    /\ WellFormed(r2)
    /\ Left(r1) < Left(r2) /\ Right(r2) < Right(r1)
    /\ Top(r1) < Top(r2) /\ Bottom(r2) < Bottom(r1)
    /\ rres = <<TRUE, TRUE>>

\* C8: an intersection is reported only for two boxes of records with the
\* same page_number that overlap; and in a run that ends without the cap
\* being reached, every such unordered pair is reported exactly once and no
\* other pair at all.
C8_PairsOnSamePage ==
    /\ FindingsAreMessages
    /\ \A k \in 1..Len(findings) :
         LET i == findings[k][1]
             j == findings[k][2]
         IN  i # j => /\ i < j
                      /\ PageOf(i) = PageOf(j)
                      /\ PositiveOverlap(RectOf(i), RectOf(j))
    /\ (gpc = "done" /\ ~Aborted) =>
         \A i \in 1..NumRects : \A j \in (i + 1)..NumRects :
            Times(<<i, j>>) =
              IF PageOf(i) = PageOf(j) /\ PositiveOverlap(RectOf(i), RectOf(j))
              THEN 1 ELSE 0

\* a finished run without the cap over two records on different pages with
\* the same boxes, one of them with its entry box over its label box: that
\* pair is reported, no pair across the pages is
C8_Witness ==
    /\ gpc = "done" /\ ~Aborted
    /\ Len(form_fields) = 2
    /\ form_fields[1].page_number # form_fields[2].page_number
    /\ form_fields[1].entry_bounding_box = form_fields[2].entry_bounding_box
    /\ form_fields[1].label_bounding_box = form_fields[2].label_bounding_box
    /\ PositiveOverlap(form_fields[1].label_bounding_box, form_fields[1].entry_bounding_box)
    /\ Times(<<1, 2>>) = 1 /\ Times(<<3, 4>>) = 1 /\ Len(findings) = 2

C10_BoundedReporting ==
    /\ Len(messages) <= 21
    /\ \A k \in 1..Len(messages) :
         IsAbort(messages[k]) =>
            /\ k = Len(messages) /\ k = 21
            /\ gpc = "done"
            /\ \A m \in 1..(k - 1) : ~IsAbort(messages[m]) /\ ~IsSuccess(messages[m])
    /\ Len(messages) >= 20 => Aborted
    /\ (gpc = "done" /\ form_fields = OverlappingFields(25)) =>
         /\ Aborted
         /\ gi = 1 /\ gj < NumRects
         /\ Len(findings) = 19

\* the run over the 25 overlapping fields has ended with the notice
C10_Witness ==
    /\ gpc = "done"
    /\ Len(form_fields) = 25
    /\ Len(messages) = 21
    /\ IsAbort(messages[21])

HasSuccess == \E k \in 1..Len(messages) : IsSuccess(messages[k])
HasFailure == \E k \in 1..Len(messages) : IsFailure(messages[k])

\* C11: the list returned by get_bounding_box_messages holds the SUCCESS
\* message exactly when it holds no FAILURE message; SUCCESS is the last
\* message and occurs once; a run with no overlapping pair on one page and
\* no too-short entry ends with SUCCESS, and while the run goes on no
\* SUCCESS stands beside a FAILURE.
C11_SuccessIffNoFailure ==
    /\ ~(HasSuccess /\ HasFailure)
    /\ gpc = "done" => (HasSuccess <=> ~HasFailure)
    /\ \A k \in 1..Len(messages) :
         IsSuccess(messages[k]) => k = Len(messages) /\ gpc = "done"
    /\ gpc = "done" =>
         (HasSuccess <=>
            /\ \A i \in 1..NumRects : \A j \in (i + 1)..NumRects :
                 ~(PageOf(i) = PageOf(j) /\ PositiveOverlap(RectOf(i), RectOf(j)))
            /\ \A f \in 1..Len(form_fields) :
                 ~( /\ form_fields[f].entry_text.present
                    /\ Bottom(form_fields[f].entry_bounding_box)
                         - Top(form_fields[f].entry_bounding_box)
                       < (IF form_fields[f].entry_text.has_font_size
                          THEN form_fields[f].entry_text.font_size ELSE 14) ))

\* a finished run over two records that found one violation and returned
\* the header and the FAILURE message, without SUCCESS
C11_Witness ==
    /\ gpc = "done"
    /\ Len(form_fields) = 2
    /\ Len(findings) = 1
    /\ Len(messages) = 2
    /\ IsFailure(messages[2])
    /\ ~HasSuccess

\* two messages with the same text and the same interpolated values
SameMessage(a, b) == a[1] = b[1] /\ a = b

\* C12: no two messages of the list returned by get_bounding_box_messages
\* are equal.
C12_MessagesDistinct ==
    \A k \in 1..Len(messages) : \A m \in 1..Len(messages) :
        k # m => ~SameMessage(messages[k], messages[m])

(***************************************************************************)
(* The schema, stated apart from the code: what the pages of the document  *)
(* hold for a name. An annotation's name is given here by its own short    *)
(* name or, for a button of a group, by its parent's.                      *)
(***************************************************************************)
Annots == [k \in 1..(Len(pdf.pages[1]) + Len(pdf.pages[2])) |->
    IF k <= Len(pdf.pages[1])
    THEN [page |-> 1, ann |-> pdf.pages[1][k]]
    ELSE [page |-> 2, ann |-> pdf.pages[2][k - Len(pdf.pages[1])]]]

\* the annotation is a button of the group with exactly one non-off state
IsOption(ann, group) ==
    /\ "/Parent" \in DOMAIN ann /\ "/T" \notin DOMAIN ann
    /\ ann["/Parent"]["/T"] = group
    /\ "/AP" \in DOMAIN ann
    /\ Cardinality({k \in 1..Len(ann["/AP"]["/N"]) : ann["/AP"]["/N"][k] # "/Off"}) = 1

OptionState(ann) ==
    ann["/AP"]["/N"][CHOOSE k \in 1..Len(ann["/AP"]["/N"]) : ann["/AP"]["/N"][k] # "/Off"]

\* the option annotations of the group, in scan order
OptionsOf(group) == SelectSeq(Annots, LAMBDA a : IsOption(a.ann, group))

EntriesFor(id) == {k \in 1..Len(sorted_fields) : sorted_fields[k].field_id = id}

\* C13: the N option annotations of the radio group g (each with exactly one
\* non-off state), on one page or on two, give exactly one schema entry for
\* g: of type radio_group, with N options, in scan order, each with the state
\* and the rectangle of its annotation; no entry has an option's state as its
\* own; an annotation of g with no or with several non-off states, or
\* without appearance states, adds no option; without any option there is no
\* entry for g.
C13_RadioGroupOneEntry ==
    (xpc = "done" /\ Len(pdf.fields) > 0) =>
        LET opts == OptionsOf("g")
        IN  IF Len(opts) = 0 THEN EntriesFor("g") = {}
            ELSE /\ Cardinality(EntriesFor("g")) = 1
                 /\ \A k \in EntriesFor("g") :
                      /\ sorted_fields[k].type = "radio_group"
                      /\ sorted_fields[k].page = opts[1].page
                      /\ Len(sorted_fields[k].radio_options) = Len(opts)
                      /\ \A n \in 1..Len(opts) :
                           /\ sorted_fields[k].radio_options[n].value = OptionState(opts[n].ann)
                           /\ sorted_fields[k].radio_options[n].rect = opts[n].ann["/Rect"]
                 /\ \A k \in 1..Len(sorted_fields) :
                      sorted_fields[k].type = "radio_group" => k \in EntriesFor("g")

\* a finished extraction of a document with the button /2 of g on page 1,
\* a button of g without on-state and the button /1 on page 2: one entry
\* with the options /2, /1
C13_Witness ==
    /\ xpc = "done"
    /\ Len(pdf.fields) > 0
    /\ Len(pdf.pages[1]) = 1 /\ Len(pdf.pages[2]) = 2
    /\ IsOption(pdf.pages[1][1], "g") /\ OptionState(pdf.pages[1][1]) = "/2"
    /\ pdf.pages[2][1] = RadioStates("g", <<"/Off">>, <<110, 500, 122, 512>>)
    /\ IsOption(pdf.pages[2][2], "g") /\ OptionState(pdf.pages[2][2]) = "/1"
    /\ Len(sorted_fields) = 1
    /\ Len(sorted_fields[1].radio_options) = 2
    /\ sorted_fields[1].radio_options[1].value = "/2"
    /\ sorted_fields[1].radio_options[2].value = "/1"

\* the rectangle an entry is placed by, NoRect when it has none
PlaceOf(e) ==
    IF "radio_options" \in DOMAIN e THEN e.radio_options[1].rect
    ELSE IF "rect" \in DOMAIN e THEN e.rect ELSE NoRect

\* (page, minus the bottom coordinate, left coordinate); a rectangle of the
\* schema is [left, bottom, right, top]
ReadingKey(e) == <<e.page, 0 - PlaceOf(e)[2], PlaceOf(e)[1]>>

KeyLeq(a, b) ==
    \/ a[1] < b[1]
    \/ a[1] = b[1] /\ a[2] < b[2]
    \/ a[1] = b[1] /\ a[2] = b[2] /\ a[3] <= b[3]

\* C14: the schema returned by get_field_info is in reading order: of two
\* entries that have a rectangle, the earlier has a key (page, minus bottom,
\* left) less than or equal to that of the later, a radio group taking the
\* rectangle of its first option; so for two consecutive entries.
C14_ReadingOrder ==
    xpc = "done" =>
        \A i \in 1..Len(sorted_fields) : \A j \in (i + 1)..Len(sorted_fields) :
            (PlaceOf(sorted_fields[i]) # NoRect /\ PlaceOf(sorted_fields[j]) # NoRect)
                => KeyLeq(ReadingKey(sorted_fields[i]), ReadingKey(sorted_fields[j]))

\* a finished extraction that returned a, p.c and the group g, in this
\* order, from a page that lists them in another
C14_Witness ==
    /\ xpc = "done"
    /\ Len(pdf.pages[1]) = 3
    /\ Len(sorted_fields) = 3
    /\ sorted_fields[1].field_id = "a" /\ PlaceOf(sorted_fields[1]) # NoRect
    /\ sorted_fields[2].field_id = "p.c"
    /\ sorted_fields[3].field_id = "g"
    /\ IsOption(pdf.pages[1][1], "g")
    /\ pdf.pages[1][2] = ChildWidget("p", "c", <<300, 700, 400, 720>>)

\* the dotted name of a widget: its parent's short name, then its own
AnnotName(ann) ==
    IF "/T" \notin DOMAIN ann THEN NoName
    ELSE IF "/Parent" \in DOMAIN ann THEN ann["/Parent"]["/T"] \o "." \o ann["/T"]
    ELSE ann["/T"]

\* the leaf definitions: those without children
LeafIds == {pdf.fields[k][1] : k \in {n \in 1..Len(pdf.fields) :
                "/Kids" \notin DOMAIN pdf.fields[n][2]}}

Matched(id) == \E k \in 1..Len(Annots) : AnnotName(Annots[k].ann) = id

WarnedTimes(id) ==
    Cardinality({k \in 1..Len(warnings) : warnings[k] = <<LocationWarningText, id>>})

\* C15: every entry of the list get_field_info is about to sort and of the
\* schema it returns has a page, a page of the document; a leaf definition
\* that an annotation of some page matches has one entry, on the page of the
\* last such annotation, and no warning; a leaf definition that no
\* annotation matches has no entry and one warning naming it, and the
\* extraction goes on to return the entries of the others.
C15_EveryEntryHasPage ==
    /\ xpc \in {"sort", "done"} =>
         \A k \in 1..Len(sorted_fields) :
            /\ "page" \in DOMAIN sorted_fields[k]
            /\ sorted_fields[k].page \in 1..Len(pdf.pages)
    /\ (xpc = "done" /\ Len(pdf.fields) > 0) =>
         \A id \in LeafIds :
            IF Matched(id)
            THEN /\ Cardinality(EntriesFor(id)) = 1
                 /\ WarnedTimes(id) = 0
                 /\ \A k \in EntriesFor(id) :
                      \E n \in 1..Len(Annots) :
                         /\ AnnotName(Annots[n].ann) = id
                         /\ Annots[n].page = sorted_fields[k].page
                         /\ \A m \in (n + 1)..Len(Annots) : AnnotName(Annots[m].ann) # id
            ELSE /\ EntriesFor(id) = {}
                 /\ WarnedTimes(id) = 1
    /\ xpc = "done" =>
         Cardinality({k \in 1..Len(warnings) : warnings[k][1] = LocationWarningText})
           = Cardinality({id \in LeafIds : ~Matched(id)})

\* a finished extraction of a document whose pages hold a widget of b and
\* none of a: a is dropped with its warning, b is returned
C15_Witness ==
    /\ xpc = "done"
    /\ Len(pdf.fields) > 0
    /\ Matched("b") /\ ~Matched("a")
    /\ EntriesFor("a") = {}
    /\ WarnedTimes("a") = 1
    /\ Cardinality(EntriesFor("b")) = 1

(***************************************************************************)
(* The coordinate transform, stated apart from the code: q = n / d is      *)
(* tested by cross-multiplication.                                         *)
(***************************************************************************)
\* q * den = num
IsQuotient(q, num, den) == q[2] > 0 /\ q[1] * den = num * q[2]

Records == fields_data.form_fields

\* the record has a non-empty text
WithText(f) == f.entry_text.present /\ f.entry_text.has_text /\ f.entry_text.text # ""

\* the records with text among the first n, in order
TextRecords(n) == SelectSeq(SubSeq(Records, 1, n), WithText)

\* the record's page_number has no record in pages
NoPageRecord(f) ==
    \A k \in 1..Len(fields_data.pages) : fields_data.pages[k].page_number # f.page_number

\* C17: the overlay filler adds no annotation for a record without text (no
\* entry_text, no text in it, or an empty text) and exactly one free-text
\* annotation, on the record's page and with the record's text, for every
\* record with non-empty text, in the order of the records: after n records
\* the writer holds as many annotations as there are records with text among
\* them, and the written document and the count printed are those of all the
\* records.
C17_OneAnnotationPerText ==
    /\ opc \in {"fields", "write"} =>
         LET with_text == TextRecords(ok - 1)
         IN  /\ Len(owriter) = Len(with_text)
             /\ Len(overlay_annotations) = Len(with_text)
             /\ \A k \in 1..Len(with_text) :
                  /\ owriter[k].page_number + 1 = with_text[k].page_number
                  /\ owriter[k].annotation.text = with_text[k].entry_text.text
                  /\ owriter[k].annotation = overlay_annotations[k]
    /\ (opc = "done" /\ oexit_code = 0) =>
         LET with_text == TextRecords(Len(Records))
         IN  /\ ooutput # NoFile
             /\ Len(ooutput.annotations) = Len(with_text)
             /\ \A k \in 1..Len(with_text) :
                  /\ ooutput.annotations[k].page_number + 1 = with_text[k].page_number
                  /\ ooutput.annotations[k].annotation.text = with_text[k].entry_text.text
             /\ oprinted[Len(oprinted)] = <<AddedText, Len(with_text)>>

\* a written document for two records, the first with an empty text and the
\* second with a text: one annotation, the second record's
C17_Witness ==
    /\ opc = "done" /\ oexit_code = 0
    /\ Len(Records) = 2
    /\ Records[1].entry_text = EntryTextEmpty
    /\ WithText(Records[2])
    /\ Len(ooutput.annotations) = 1
    /\ ooutput.annotations[1].annotation.text = Records[2].entry_text.text

\* C18: when a record references a page_number that has no record in pages,
\* no output document is ever written; the run stops at the first such
\* record, with an error printed and exit code 1 (unless an earlier record
\* stopped it), whatever the record's position and whether or not it has
\* text.
C18_MissingPageIsHardError ==
    (opc # "idle" /\ \E f \in 1..Len(Records) : NoPageRecord(Records[f])) =>
        /\ ooutput = NoFile
        /\ opc # "write"
        /\ \A f \in 1..Len(Records) : NoPageRecord(Records[f]) => ok <= f
        /\ opc = "done" =>
             /\ oexit_code = 1
             /\ Len(oprinted) = 1
             /\ oprinted[1][1] = OverlayErrorText

\* a finished run over a record with text on page 1 and a record without
\* text on page 2, which has no record in pages: stopped at the second, exit
\* code 1, nothing written
C18_Witness ==
    /\ opc = "done"
    /\ Len(Records) = 2
    /\ WithText(Records[1]) /\ ~NoPageRecord(Records[1])
    /\ ~WithText(Records[2]) /\ NoPageRecord(Records[2])
    /\ ok = 2
    /\ oexit_code = 1
    /\ ooutput = NoFile

(***************************************************************************)
(* Unknown field types.                                                    *)
(***************************************************************************)
KnownTypes == {"text", "checkbox", "radio_group", "choice"}
UnknownEntry(id) == id \in SchemaIds /\ Entry(id).type \notin KnownTypes

\* C19: no run writes a value to a field whose schema entry is of an unknown
\* type: in the writer and in the output the field keeps the value it has in
\* the document.
C19_UnknownNeverFilled ==
    \A id \in SchemaIds :
        UnknownEntry(id) =>
            /\ writer.values[id] = ReaderValues[id]
            /\ output.values[id] = ReaderValues[id]

(***************************************************************************)
(* The verdict of the geometry validator on a set of records.              *)
(***************************************************************************)
ValidatorReportsViolation(ff) ==
    LET boxes == RectsAndFields(ff)
    IN  \/ \E i \in 1..Len(boxes) : \E j \in (i + 1)..Len(boxes) :
              PairHit(boxes[i], boxes[j], ff)
        \/ \E i \in 1..Len(boxes) : TooShort(boxes[i], ff)

\* C20: the overlay filler adds no annotation from a set of records for
\* which the geometry validator reports a violation.
C20_ValidatedBeforeOverlay ==
    (Len(owriter) > 0 \/ ooutput # NoFile) => ~ValidatorReportsViolation(Records)

(***************************************************************************)
(* The field id, stated apart from the code: the names on the way from the *)
(* root down to the annotation.                                            *)
(***************************************************************************)
RECURSIVE NamesFromRoot(_)
NamesFromRoot(n) ==
    IF n = 0 THEN <<>>
    ELSE NamesFromRoot(store[n].parent)
         \o (IF store[n].name # NoName THEN <<store[n].name>> ELSE <<>>)

RECURSIVE Dotted(_)
Dotted(names) ==
    IF Len(names) = 0 THEN NoName
    ELSE IF Len(names) = 1 THEN names[1]
    ELSE names[1] \o "." \o Dotted(Tail(names))

\* C21: get_full_annotation_field_id returns the short names along the parent
\* chain of the annotation, joined with dots from the root to the leaf;
\* objects without a name contribute nothing; with no name on the chain the
\* result is absent; and the names are collected leaf first.
C21_FieldIdRootToLeaf ==
    wpc = "done" =>
        LET names == NamesFromRoot(wstart)
        IN  /\ wresult = Dotted(names)
            /\ Len(wcomponents) = Len(names)
            /\ \A k \in 1..Len(names) : wcomponents[k] = names[Len(names) + 1 - k]
            /\ Len(names) = 0 => wresult = NoName

\* the walk from object 1 (named a) through its parent 2 (unnamed) to the
\* root 3 (named c) has returned c.a
C21_Witness ==
    /\ wpc = "done"
    /\ wstart = 1
    /\ store[1] = [name |-> "a", parent |-> 2]
    /\ store[2] = [name |-> NoName, parent |-> 3]
    /\ store[3] = [name |-> "c", parent |-> 0]
    /\ wcomponents = <<"a", "c">>
    /\ wresult = "c.a"

\* C22: get_full_annotation_field_id terminates on every annotation graph,
\* one whose parent links form a cycle included.
C22_WalkTerminates == <>(wpc = "done")

(***************************************************************************)
(* The field dictionary, stated apart from the code.                       *)
(***************************************************************************)
Defs == pdf.fields
DefOf(id) == Defs[CHOOSE k \in 1..Len(Defs) : Defs[k][1] = id][2]
DefIds == {Defs[k][1] : k \in 1..Len(Defs)}
WithKids(id) == "/Kids" \in DOMAIN DefOf(id) /\ Len(DefOf(id)["/Kids"]) > 0
IsButton(id) == "/FT" \in DOMAIN DefOf(id) /\ DefOf(id)["/FT"] = "/Btn"
StatesOf(id) == IF "/_States_" \in DOMAIN DefOf(id) THEN DefOf(id)["/_States_"] ELSE <<>>
TwoStateButtons == {id \in DefIds : ~WithKids(id) /\ IsButton(id) /\ Len(StatesOf(id)) = 2}
CandidatesFor(id) == {k \in 1..Len(field_info_by_id) : field_info_by_id[k].field_id = id}
StateWarnedTimes(id) ==
    Cardinality({k \in 1..Len(warnings) : warnings[k] = <<CheckboxWarningText, id>>})
Read == xpc \in {"scan", "filter", "sort", "done"}

\* C23: for a button leaf with two toggle states, in its candidate entry and
\* in its schema entry: when one state is '/Off', unchecked_value is '/Off'
\* and checked_value is the other state, in either order, and no warning is
\* emitted; when neither is '/Off', checked_value is the first state,
\* unchecked_value the second, and one warning names the field.
C23_CheckboxStates ==
    (Read /\ Len(Defs) > 0) =>
        \A id \in TwoStateButtons :
            LET states == StatesOf(id)
                Assigned(e) ==
                    IF "/Off" \in {states[1], states[2]}
                    THEN /\ e.unchecked_value = "/Off"
                         /\ e.checked_value \in {states[1], states[2]} \ {"/Off"}
                    ELSE /\ e.checked_value = states[1]
                         /\ e.unchecked_value = states[2]
            IN  /\ Cardinality(CandidatesFor(id)) = 1
                /\ \A k \in CandidatesFor(id) : Assigned(field_info_by_id[k])
                /\ xpc = "done" => \A k \in EntriesFor(id) : Assigned(sorted_fields[k])
                /\ StateWarnedTimes(id) =
                     IF "/Off" \in {states[1], states[2]} THEN 0 ELSE 1

\* a schema with the entries of c2 (states /Off, /On) and c3 (states /A, /B)
C23_Witness ==
    /\ xpc = "done"
    /\ \E k \in EntriesFor("c2") :
         sorted_fields[k].checked_value = "/On" /\ sorted_fields[k].unchecked_value = "/Off"
    /\ \E k \in EntriesFor("c3") :
         sorted_fields[k].checked_value = "/A" /\ sorted_fields[k].unchecked_value = "/B"
    /\ StateWarnedTimes("c3") = 1 /\ StateWarnedTimes("c2") = 0

\* C24: a definition with children has no candidate leaf entry and no leaf
\* entry in the schema: a button with children is a candidate radio-group
\* name and nothing else is; every definition without children has exactly
\* one candidate leaf entry, in the order of the dictionary.
C24_ContainersNotEmitted ==
    (Read /\ Len(Defs) > 0) =>
        /\ \A id \in DefIds :
             Cardinality(CandidatesFor(id)) = IF WithKids(id) THEN 0 ELSE 1
        /\ radio_names = {id \in DefIds : WithKids(id) /\ IsButton(id)}
        /\ \A k \in 1..Len(field_info_by_id) : \A m \in (k + 1)..Len(field_info_by_id) :
             \E a \in 1..Len(Defs) : \E b \in (a + 1)..Len(Defs) :
                Defs[a][1] = field_info_by_id[k].field_id
                /\ Defs[b][1] = field_info_by_id[m].field_id
        /\ xpc = "done" =>
             \A id \in DefIds : WithKids(id) =>
                \A k \in EntriesFor(id) :
                    IsButton(id) /\ sorted_fields[k].type = "radio_group"

\* a finished extraction of a document with a widget named as the container
\* q and a widget of c1: c1 has its entry, q has none
C24_Witness ==
    /\ xpc = "done"
    /\ Len(Defs) > 0
    /\ Matched("q") /\ Matched("c1")
    /\ EntriesFor("q") = {}
    /\ Cardinality(EntriesFor("c1")) = 1
    /\ radio_names = {"k"}

\* C27: no two entries of the schema have the same field_id, and no id is a
\* key of both the leaf entries and the radio-group entries.
C27_UniqueFieldIds ==
    /\ \A i \in 1..Len(sorted_fields) : \A j \in 1..Len(sorted_fields) :
         i # j => sorted_fields[i].field_id # sorted_fields[j].field_id
    /\ \A i \in 1..Len(field_info_by_id) : \A j \in 1..Len(radio_fields_by_id) :
         field_info_by_id[i].field_id # radio_fields_by_id[j].field_id
    /\ \A i \in 1..Len(radio_fields_by_id) : \A j \in 1..Len(radio_fields_by_id) :
         i # j => radio_fields_by_id[i].field_id # radio_fields_by_id[j].field_id

\* a schema with the group g of two options and the leaf b
C27_Witness ==
    /\ xpc = "done"
    /\ Len(sorted_fields) = 2
    /\ \E k \in EntriesFor("g") : Len(sorted_fields[k].radio_options) = 2
    /\ Cardinality(EntriesFor("b")) = 1

\* C29: every schema entry of type checkbox has checked_value and
\* unchecked_value, and validating a value against it gives a verdict: None
\* or an error, not an exception.
C29_CheckboxHasBothValues ==
    xpc = "done" =>
        \A k \in 1..Len(sorted_fields) :
            sorted_fields[k].type = "checkbox" =>
                /\ "checked_value" \in DOMAIN sorted_fields[k]
                /\ "unchecked_value" \in DOMAIN sorted_fields[k]
                /\ \A v \in {"/Yes", "/Off"} :
                     ~IsRaised(validation_error_for_field_value(sorted_fields[k], v))

(***************************************************************************)
(* The order of the events of a fill.                                      *)
(***************************************************************************)
\* C25: in a fill the writer exists only once every assignment has been
\* validated and none broke a rule; the values are applied one batch per
\* page of the batch; the need-appearances flag is set only after the batch
\* of the last page, never while batches remain; the output is written only
\* after the flag is set, with the values and the flag of the writer; a run
\* that ends with exit code 0 has written the output.
C25_FillEventOrder ==
    /\ writer.exists =>
         /\ vk = Len(fields) + 1 /\ ~fill_error
         /\ \A k \in 1..Len(fields) : ~BreaksStatedRule(fields[k])
    /\ writer.values # ReaderValues => writer.exists /\ pk > 1
    /\ \A i, j \in 1..Len(fields_by_page) :
         fields_by_page[i][1] = fields_by_page[j][1] => i = j
    /\ fpc = "apply" => ~writer.need_appearances /\ ~output.written
    /\ writer.need_appearances =>
         writer.exists /\ pk = Len(fields_by_page) + 1
    /\ fpc = "write" => writer.need_appearances /\ ~output.written
    /\ output.written =>
         /\ writer.need_appearances /\ output.need_appearances
         /\ output.values = writer.values
         /\ fpc = "done"
    /\ (fpc = "done" /\ exit_code = 0) => output.written

\* a finished fill whose batch gives values on both pages
C25_Witness ==
    /\ fpc = "done" /\ exit_code = 0
    /\ Len(fields_by_page) = 2 /\ pk = 3
    /\ output.written /\ output.need_appearances
    /\ output.values # ReaderValues

(***************************************************************************)
(* What the validation loop owes one assignment, by the precedence of the  *)
(* rules: "unknown", "page", "value", or "none".                           *)
(***************************************************************************)
Owed(a) ==
    IF UnknownId(a) THEN "unknown"
    ELSE IF WrongPage(a) THEN "page"
    ELSE IF IllegalValue(a) /\ HasLegalValues(Entry(a.field_id)) THEN "value"
    ELSE "none"

KindOf(m) ==
    IF m[1] = UnknownFieldText THEN "unknown"
    ELSE IF m[1] = PageMismatchText THEN "page"
    ELSE IF IsValueError(m) THEN "value"
    ELSE "none"

\* the assignments validated so far that are owed an error, in batch order
OwedSoFar ==
    LET n == IF vk > Len(fields) THEN Len(fields) ELSE IF vk = 0 THEN 0 ELSE vk - 1
        F[k \in 0..n] ==
            IF k = 0 THEN <<>>
            ELSE IF Owed(fields[k]) # "none" THEN Append(F[k - 1], k)
            ELSE F[k - 1]
    IN  F[n]

ValidationErrors == SelectSeq(printed, IsValidationError)

\* C28: the validation errors printed are, in batch order, one for each
\* validated assignment that breaks a rule and none for the others, each of
\* the kind of the first rule the assignment breaks in the order unknown
\* field_id, page mismatch, illegal value, and naming the assignment's
\* field_id; the value check is called only for an assignment whose
\* field_id is in the schema and whose page is the entry's page.
C28_OneErrorByPrecedence ==
    /\ Len(ValidationErrors) = Len(OwedSoFar)
    /\ \A n \in 1..Len(OwedSoFar) :
         n <= Len(ValidationErrors) =>
            /\ KindOf(ValidationErrors[n]) = Owed(fields[OwedSoFar[n]])
            /\ ErrorFieldId(ValidationErrors[n]) = fields[OwedSoFar[n]].field_id
    /\ vcall # NoCall =>
         \E k \in 1..Len(fields) :
            /\ k <= vk
            /\ ~UnknownId(fields[k]) /\ ~WrongPage(fields[k])
            /\ "value" \in DOMAIN fields[k]
            /\ vcall[1].info = Entry(fields[k].field_id)
            /\ vcall[1].value = fields[k].value

\* a finished run on one assignment of an illegal value to a choice list on
\* the wrong page, after one to an unknown field_id: one unknown-field error
\* and one page-mismatch error, no value error, no value check
C28_Witness ==
    /\ fpc = "done" /\ exit_code = 1
    /\ Len(fields) = 2
    /\ fields[1] = [field_id |-> "nope", page |-> 1, value |-> "US"]
    /\ fields[2] = [field_id |-> "country", page |-> 1, value |-> "/Yes"]
    /\ ~TypeLegal(Entry("country"), "/Yes") /\ Entry("country").page = 2
    /\ Len(printed) = 2
    /\ printed[1] = <<UnknownFieldText, "nope">>
    /\ printed[2] = <<PageMismatchText, "country", 1, 2>>
    /\ vcall = NoCall

(***************************************************************************)
(* Several assignments for one field.                                      *)
(***************************************************************************)
\* the positions of the assignments that give field id a value on page p
GivenAt(p, id) ==
    {k \in 1..Len(fields) :
        HasValue(k) /\ fields[k].page = p /\ fields[k].field_id = id}

LastOf(S) == CHOOSE k \in S : \A m \in S : m <= k

\* C30: fields_by_page holds, for a page and a field_id, a value exactly
\* when some assignment gives one, and then the value of the last such
\* assignment; an assignment without a value key adds nothing to it. Every
\* assignment the validation loop has passed, with a value key or without,
\* an earlier one of several for the same field included, has been checked:
\* its error is printed when it breaks a rule. The written document holds,
\* for a field given several values, the last one.
C30_LastOfSeveralApplied ==
    /\ fpc \notin {"idle", "start"} =>
         /\ \A n \in 1..Len(fields_by_page) :
              \A id \in DOMAIN fields_by_page[n][2] :
                 /\ GivenAt(fields_by_page[n][1], id) # {}
                 /\ fields_by_page[n][2][id] =
                       fields[LastOf(GivenAt(fields_by_page[n][1], id))].value
         /\ \A k \in 1..Len(fields) :
              HasValue(k) =>
                 \E n \in 1..Len(fields_by_page) :
                    /\ fields_by_page[n][1] = fields[k].page
                    /\ fields[k].field_id \in DOMAIN fields_by_page[n][2]
    /\ \A k \in 1..Len(fields) :
         (fpc \notin {"idle", "start"} /\ k < vk /\ Owed(fields[k]) # "none") =>
            \E m \in 1..Len(printed) :
               /\ IsValidationError(printed[m])
               /\ KindOf(printed[m]) = Owed(fields[k])
               /\ ErrorFieldId(printed[m]) = fields[k].field_id
    /\ output.written =>
         /\ vk = Len(fields) + 1
         /\ \A id \in FieldIds :
              LET given == {k \in 1..Len(fields) :
                               HasValue(k) /\ fields[k].field_id = id}
              IN  output.values[id] =
                     IF given # {} THEN fields[LastOf(given)].value
                     ELSE ReaderValues[id]

\* a finished fill of two values for the text field "name" on its page: the
\* document holds the second
C30_Witness ==
    /\ fpc = "done" /\ exit_code = 0 /\ output.written
    /\ Len(fields) = 2
    /\ fields[1] = [field_id |-> "name", page |-> 1, value |-> "/Yes"]
    /\ fields[2] = [field_id |-> "name", page |-> 1, value |-> "US"]
    /\ Len(fields_by_page) = 1
    /\ output.values["name"] = "US"

(***************************************************************************)
(* The two forms of an intersection message. The boxes of record f are     *)
(* boxes 2f-1 (its label) and 2f (its entry).                              *)
(***************************************************************************)
RecordOf(k) == (k + 1) \div 2
TypeOf(k) == IF k % 2 = 1 THEN "label" ELSE "entry"
DescriptionOf(k) == form_fields[RecordOf(k)].description

\* C26: the message of an intersection between the two boxes of one record
\* is of the "label and entry" form and names the record's description once,
\* then the two boxes; the message of an intersection between boxes of two
\* records is of the other form and gives, for each box, its type, its
\* record's description and the box. The first form is never used for boxes
\* of two records, whatever the records hold.
C26_IntersectionMessageForms ==
    /\ Len(findings) =
         Cardinality({k \in 1..Len(messages) : IsFailure(messages[k])})
    /\ \A k \in 1..Len(findings) :
         LET i == findings[k][1]
             j == findings[k][2]
             m == messages[k + 1]
         IN  i # j =>
               IF RecordOf(i) = RecordOf(j)
               THEN /\ m[1] = SameText
                    /\ Len(m) = 4
                    /\ m[2] = DescriptionOf(i)
                    /\ m[3] = RectOf(i) /\ m[4] = RectOf(j)
               ELSE /\ m[1] = DiffText
                    /\ Len(m) = 7
                    /\ m[2] = TypeOf(i) /\ m[3] = DescriptionOf(i) /\ m[4] = RectOf(i)
                    /\ m[5] = TypeOf(j) /\ m[6] = DescriptionOf(j) /\ m[7] = RectOf(j)

\* a finished run over two records that hold the same page, description,
\* boxes and entry_text, the entry box over the label box: the record's own
\* pair in the first form, the two label boxes in the second
C26_Witness ==
    /\ gpc = "done"
    /\ Len(form_fields) = 2
    /\ form_fields[1] = form_fields[2]
    /\ form_fields[1].entry_bounding_box = EntryOverlapping
    /\ Len(findings) >= 2
    /\ findings[1] = <<1, 2>> /\ messages[2][1] = SameText
    /\ findings[2] = <<1, 3>> /\ messages[3][1] = DiffText
    /\ messages[3][3] = messages[3][6] /\ messages[3][4] = messages[3][7]

====
